---------------------------- MODULE Spec2Model ----------------------------
(***************************************************************************)
(* Billing cycle pattern detection and projection engine                   *)
(* (src/types/index.ts, "BILLING CYCLE ALGORITHMS").                       *)
(*                                                                         *)
(* Representation of the JavaScript values:                                *)
(*  - a Date is an integer number of ticks of local time since             *)
(*    2024-01-01 00:00; a day has TicksPerDay ticks, so a Date             *)
(*    carries a time of day (no daylight-saving shift is modelled);        *)
(*  - a number that the code can make a half-integer (a median, and so     *)
(*    typicalCycleLength) is held in halves: the integer 2 * value;        *)
(*  - a variance is held as the exact fraction <<num, den>>;               *)
(*  - a confidence is an IEEE-754 double, held exactly as five limbs       *)
(*    <<i, f1, f2, f3, f4>> in base 2^15:                                  *)
(*    value = i + f1/2^15 + f2/2^30 + f3/2^45 + f4/2^60,                   *)
(*    and every arithmetic step rounds to 53 significant bits, ties to     *)
(*    even, as the double arithmetic of the code does.                     *)
(***************************************************************************)
EXTENDS Integers, Sequences, FiniteSets

\* ------------------------------------------------------------------------
\* Bounds of the model
\* ------------------------------------------------------------------------

\* Longest history handed to analyzeBillingCyclePattern.
MaxCycles == 6

\* Longest history the caller holds in an arbitrary order.
MaxShuffled == 3

\* Largest monthsAhead handed to projectFutureCycles.
MaxMonthsAhead == 3

\* Resolution of the time of day of a Date.
TicksPerDay == 2

\* a projection far enough ahead for the confidence factor 1 - i * 0.05 to
\* pass zero (i = 21)
LongHorizon == 22

\* Longest history from which a projection that far ahead is asked.
MaxLongHistory == 2

\* Longest array of cycles handed to assignTransactionToCycle.
MaxAssigned == 3

\* Longest array of numbers handed to a statistical helper.
MaxNumbers == 4

\* Sync requests the server handles at the same time.
MaxRequests == 2

\* Sync requests received in all.
MaxSyncs == 4

\* Sync requests received while another one is being handled.
MaxOverlaps == 1

\* Statements the issuer closes.
MaxStatements == 3

\* ------------------------------------------------------------------------
\* IEEE-754 doubles in [0, 2), exact
\* ------------------------------------------------------------------------

\* 2^15
LimbBase == 32 * 1024

DblZero == <<0, 0, 0, 0, 0>>

\* a < b, limb by limb
RECURSIVE LimbsLess(_, _, _)
LimbsLess(a, b, k) ==
    IF k > 5 THEN FALSE
    ELSE IF a[k] # b[k] THEN a[k] < b[k]
    ELSE LimbsLess(a, b, k + 1)

DblLess(a, b) == LimbsLess(a, b, 1)

DblGeq(a, b) == ~DblLess(a, b)

\* exact sum of two limb sequences (no rounding)
LimbsAdd(a, b) ==
    LET s5 == a[5] + b[5]
        s4 == a[4] + b[4] + (s5 \div LimbBase)
        s3 == a[3] + b[3] + (s4 \div LimbBase)
        s2 == a[2] + b[2] + (s3 \div LimbBase)
        s1 == a[1] + b[1] + (s2 \div LimbBase)
    IN  <<s1, s2 % LimbBase, s3 % LimbBase, s4 % LimbBase, s5 % LimbBase>>

\* the largest power of two that is at most f, for f >= p
RECURSIVE TopBit(_, _)
TopBit(f, p) == IF 2 * p > f THEN p ELSE TopBit(f, 2 * p)

\* weight of the last kept bit of x (the 53rd significant bit), in units
\* of 2^-60; exact for values in [2^-7, 2)
Quantum(x) ==
    IF x[1] >= 1 THEN 256
    ELSE IF x[2] < 256 THEN 1
    ELSE TopBit(x[2], 256) \div 128

\* round x to 53 significant bits, ties to even; sticky says that x stands
\* for a value slightly above the limbs (an inexact division)
RoundDbl(x, sticky) ==
    IF x[1] = 0 /\ x[2] = 0 THEN x
    ELSE
      LET q    == Quantum(x)
          rem  == x[5] % q
          down == <<x[1], x[2], x[3], x[4], x[5] - rem>>
          odd  == ((x[5] \div q) % 2) = 1
          up   == \/ 2 * rem > q
                  \/ 2 * rem = q /\ (sticky \/ odd)
      IN  IF up THEN LimbsAdd(down, <<0, 0, 0, 0, q>>) ELSE down

\* the double a numeric literal n/d denotes (0.15 is DblLit(15, 100))
DblLit(n, d) ==
    LET i  == n \div d
        r1 == (n % d) * LimbBase
        r2 == (r1 % d) * LimbBase
        r3 == (r2 % d) * LimbBase
        r4 == (r3 % d) * LimbBase
    IN  RoundDbl(<<i, r1 \div d, r2 \div d, r3 \div d, r4 \div d>>, (r4 % d) # 0)

\* a + b in double arithmetic
DblAdd(a, b) == RoundDbl(LimbsAdd(a, b), FALSE)

\* exact difference a - b of two limb sequences, a >= b
LimbsSub(a, b) ==
    LET d5 == a[5] - b[5]
        d4 == a[4] - b[4] + (d5 \div LimbBase)
        d3 == a[3] - b[3] + (d4 \div LimbBase)
        d2 == a[2] - b[2] + (d3 \div LimbBase)
        d1 == a[1] - b[1] + (d2 \div LimbBase)
    IN  <<d1, d2 % LimbBase, d3 % LimbBase, d4 % LimbBase, d5 % LimbBase>>

\* a - b in double arithmetic, for a >= b
DblSub(a, b) == RoundDbl(LimbsSub(a, b), FALSE)

\* The exact product of two limb sequences, column by column: column k
\* (weight LimbBase^(2-k)) collects the low halves of the limb products
\* a[i]*b[k-i] and the high halves of those of column k+1.
RECURSIVE ColumnSum(_, _, _, _, _)
ColumnSum(a, b, k, i, high) ==
    IF i > 5 THEN 0
    ELSE (IF k - i \in 1..5
          THEN (IF high THEN (a[i] * b[k - i]) \div LimbBase
                ELSE (a[i] * b[k - i]) % LimbBase)
          ELSE 0)
         + ColumnSum(a, b, k, i + 1, high)

Column(a, b, k) == ColumnSum(a, b, k, 1, FALSE) + ColumnSum(a, b, k + 1, 1, TRUE)

\* a * b in double arithmetic, for a product below 2
DblMul(a, b) ==
    LET t10 == Column(a, b, 10)
        t9  == Column(a, b, 9) + (t10 \div LimbBase)
        t8  == Column(a, b, 8) + (t9 \div LimbBase)
        t7  == Column(a, b, 7) + (t8 \div LimbBase)
        t6  == Column(a, b, 6) + (t7 \div LimbBase)
        t5  == Column(a, b, 5) + (t6 \div LimbBase)
        t4  == Column(a, b, 4) + (t5 \div LimbBase)
        t3  == Column(a, b, 3) + (t4 \div LimbBase)
        t2  == Column(a, b, 2) + (t3 \div LimbBase)
    IN  RoundDbl(<<t2, t3 % LimbBase, t4 % LimbBase, t5 % LimbBase, t6 % LimbBase>>,
                 \E t \in {t7, t8, t9, t10} : t % LimbBase # 0)

\* the double of a small non-negative integer
DblInt(n) == <<n, 0, 0, 0, 0>>

\* A double of either sign is [neg, mag], mag its absolute value.
Signed(neg, mag) == [neg |-> neg /\ mag # DblZero, mag |-> mag]

\* a - b in double arithmetic, for a, b >= 0
SignedSub(a, b) ==
    IF DblLess(a, b) THEN Signed(TRUE, DblSub(b, a)) ELSE Signed(FALSE, DblSub(a, b))

\* a * b in double arithmetic, for a >= 0 and b of either sign
SignedMul(a, b) == Signed(b.neg, DblMul(a, b.mag))

\* a < b for doubles of either sign
SignedLess(a, b) ==
    IF a.neg /\ b.neg THEN DblLess(b.mag, a.mag)
    ELSE IF a.neg THEN TRUE
    ELSE IF b.neg THEN FALSE
    ELSE DblLess(a.mag, b.mag)

\* Math.min(a, b)
MathMin(a, b) == IF DblLess(b, a) THEN b ELSE a

\* ------------------------------------------------------------------------
\* Calendar and the date-fns functions the engine imports
\* ------------------------------------------------------------------------

IsLeapYear(y) == (y % 4 = 0 /\ y % 100 # 0) \/ y % 400 = 0

DaysInYear(y) == IF IsLeapYear(y) THEN 366 ELSE 365

DaysInMonth(y, m) ==
    IF m = 2 THEN (IF IsLeapYear(y) THEN 29 ELSE 28)
    ELSE IF m \in {4, 6, 9, 11} THEN 30
    ELSE 31

RECURSIVE DaysBeforeMonth(_, _)
DaysBeforeMonth(y, m) ==
    IF m = 1 THEN 0 ELSE DaysBeforeMonth(y, m - 1) + DaysInMonth(y, m - 1)

RECURSIVE DaysBeforeYear(_)
DaysBeforeYear(y) ==
    IF y = 2024 THEN 0
    ELSE IF y > 2024 THEN DaysBeforeYear(y - 1) + DaysInYear(y - 1)
    ELSE DaysBeforeYear(y + 1) - DaysInYear(y)

\* day number of y-m-d, counted from 2024-01-01
DayNumber(y, m, d) == DaysBeforeYear(y) + DaysBeforeMonth(y, m) + (d - 1)

\* the Date y-m-d at tick t of the day
DateAt(y, m, d, t) == DayNumber(y, m, d) * TicksPerDay + t

\* local calendar day of a Date (floor: \div rounds down)
DayOf(date) == date \div TicksPerDay

TimeOfDay(date) == date % TicksPerDay

RECURSIVE YearFrom(_, _)
YearFrom(n, y) ==
    IF n < DaysBeforeYear(y) THEN YearFrom(n, y - 1)
    ELSE IF n >= DaysBeforeYear(y + 1) THEN YearFrom(n, y + 1)
    ELSE y

getFullYear(date) == YearFrom(DayOf(date), 2024)

RECURSIVE MonthFrom(_, _, _)
MonthFrom(n, y, m) ==
    IF n < DaysInMonth(y, m) THEN m ELSE MonthFrom(n - DaysInMonth(y, m), y, m + 1)

\* 1..12 (the code's getMonth() + 1)
getMonth(date) ==
    LET y == getFullYear(date)
    IN  MonthFrom(DayOf(date) - DaysBeforeYear(y), y, 1)

\* Date.prototype.getDate(): the day of the month
getDate(date) ==
    LET y == getFullYear(date)
        m == getMonth(date)
    IN  DayOf(date) - DaysBeforeYear(y) - DaysBeforeMonth(y, m) + 1

\* Date.prototype.getTime()
getTime(date) == date

\* x truncated toward zero, for x = n / d with d > 0
TruncDiv(n, d) == IF n >= 0 THEN n \div d ELSE -((-n) \div d)

\* date-fns differenceInDays: the number of full days between the two
differenceInDays(dateLeft, dateRight) == TruncDiv(dateLeft - dateRight, TicksPerDay)

\* date-fns addDays; amount is in halves and its fraction is dropped
addDays(date, amountHalves) == date + TruncDiv(amountHalves, 2) * TicksPerDay

\* date-fns startOfDay
startOfDay(date) == date - TimeOfDay(date)

\* date-fns endOfMonth(date).getDate()
lastDayOfMonth(date) == DaysInMonth(getFullYear(date), getMonth(date))

\* date-fns setDate: same month, same time of day
setDate(date, dayOfMonth) ==
    DateAt(getFullYear(date), getMonth(date), dayOfMonth, TimeOfDay(date))

\* date-fns addMonths(date, 1): the same day of the next month, or that
\* month's last day when it is shorter
addMonths(date, amount) ==
    LET y0 == getFullYear(date)
        m0 == getMonth(date) - 1 + amount
        y  == y0 + (m0 \div 12)
        m  == (m0 % 12) + 1
        d  == getDate(date)
        dd == IF d > DaysInMonth(y, m) THEN DaysInMonth(y, m) ELSE d
    IN  DateAt(y, m, dd, TimeOfDay(date))

\* ------------------------------------------------------------------------
\* JavaScript values
\* ------------------------------------------------------------------------

\* null is the empty tuple and a present value v is <<v>>
Null == <<>>

Some(v) == <<v>>

\* an array given element by element, as a sequence value
ArrayOf(elements) == SubSeq(elements, 1, Len(elements))

\* the elements 1..n of a sequence of integers, summed
RECURSIVE SumSeq(_, _)
SumSeq(xs, n) == IF n = 0 THEN 0 ELSE SumSeq(xs, n - 1) + xs[n]

\* Math.min(...xs) and Math.max(...xs) of a non-empty sequence
MinOf(xs) ==
    LET S == {xs[i] : i \in 1..Len(xs)}
    IN  CHOOSE x \in S : \A y \in S : x <= y

MaxOf(xs) ==
    LET S == {xs[i] : i \in 1..Len(xs)}
    IN  CHOOSE x \in S : \A y \in S : x >= y

\* Math.round of a number held in halves: the nearest integer, a tie
\* going up
MathRound(halves) == (halves + 1) \div 2

\* the elements of a finite set of integers, ascending
RECURSIVE AscendingSeq(_)
AscendingSeq(S) ==
    IF S = {} THEN <<>>
    ELSE LET m == CHOOSE x \in S : \A y \in S : x <= y
         IN  <<m>> \o AscendingSeq(S \ {m})

\* [...numbers].sort((a, b) => a - b)
RECURSIVE InsertNumber(_, _)
InsertNumber(sorted, x) ==
    IF sorted = <<>> THEN <<x>>
    ELSE IF Head(sorted) <= x THEN <<Head(sorted)>> \o InsertNumber(Tail(sorted), x)
    ELSE <<x>> \o sorted

RECURSIVE SortNumbers(_)
SortNumbers(xs) ==
    IF xs = <<>> THEN <<>>
    ELSE InsertNumber(SortNumbers(SubSeq(xs, 1, Len(xs) - 1)), xs[Len(xs)])

\* ------------------------------------------------------------------------
\* Statistical utilities
\* ------------------------------------------------------------------------

\* The keys of the frequency table in the order Object.entries lists
\* them: the non-negative integers ascending, then every other key in
\* the order of its first insertion.
ObjectKeys(numbers) ==
    LET n        == Len(numbers)
        indexKey == AscendingSeq({numbers[i] : i \in {j \in 1..n : numbers[j] >= 0}})
        firstAt  == {i \in 1..n : numbers[i] < 0 /\ \A j \in 1..(i - 1) : numbers[j] # numbers[i]}
        others   == AscendingSeq(firstAt)
    IN  indexKey \o ArrayOf([k \in 1..Len(others) |-> numbers[others[k]]])

Frequency(numbers, num) == Cardinality({i \in 1..Len(numbers) : numbers[i] = num})

\* the forEach over Object.entries(frequency): a later key replaces the
\* mode only with a strictly greater frequency
RECURSIVE ModeScan(_, _, _, _, _)
ModeScan(numbers, keys, k, maxFreq, mode) ==
    IF k > Len(keys) THEN mode
    ELSE LET freq == Frequency(numbers, keys[k])
         IN  IF freq > maxFreq
             THEN ModeScan(numbers, keys, k + 1, freq, Some(keys[k]))
             ELSE ModeScan(numbers, keys, k + 1, maxFreq, mode)

calculateMode(numbers) ==
    IF Len(numbers) = 0 THEN Null
    ELSE ModeScan(numbers, ObjectKeys(numbers), 1, 0, Null)

\* (variant: the upper of the two middle elements for an even length)
calculateMedian_UpperMiddle(numbers) ==
    IF Len(numbers) = 0 THEN 0
    ELSE LET sorted == SortNumbers(numbers)
             mid    == Len(sorted) \div 2
         IN  2 * sorted[mid + 1]

\* the median, in halves
calculateMedian(numbers) ==
    IF Len(numbers) = 0 THEN 0
    ELSE LET sorted == SortNumbers(numbers)
             mid    == Len(sorted) \div 2
         IN  IF Len(sorted) % 2 = 0
             THEN sorted[mid] + sorted[mid + 1]
             ELSE 2 * sorted[mid + 1]

\* the population variance, as the exact fraction num / den. The code
\* computes it in doubles and only ever compares it with 4; for arrays of
\* day counts the exact value is a multiple of 1 / n^2 and the double is
\* within 2^-40 of it, and where it is exactly 4 the double is 4 as well
\* (for up to 7 day counts the mean is then a dyadic number), so the
\* comparison comes out the same.
calculateVariance(numbers) ==
    IF Len(numbers) = 0 THEN [num |-> 0, den |-> 1]
    ELSE LET n  == Len(numbers)
             s  == SumSeq(numbers, n)
             s2 == SumSeq(ArrayOf([i \in 1..n |-> numbers[i] * numbers[i]]), n)
         IN  [num |-> n * s2 - s * s, den |-> n * n]

\* variance < limit
VarianceBelow(v, limit) == v.num < limit * v.den

\* ------------------------------------------------------------------------
\* Pattern analysis
\* ------------------------------------------------------------------------

\* a HistoricalCycle (statementBalance is never read by the engine)
Cycle(statementDate, dueDate) == [statementDate |-> statementDate, dueDate |-> dueDate]

\* Array.prototype.sort with the statementDate comparator: stable
RECURSIVE InsertCycle(_, _)
InsertCycle(sorted, c) ==
    IF sorted = <<>> THEN <<c>>
    ELSE IF getTime(Head(sorted).statementDate) - getTime(c.statementDate) <= 0
         THEN <<Head(sorted)>> \o InsertCycle(Tail(sorted), c)
         ELSE <<c>> \o sorted

RECURSIVE SortByStatementDate(_)
SortByStatementDate(cycles) ==
    IF cycles = <<>> THEN <<>>
    ELSE InsertCycle(SortByStatementDate(SubSeq(cycles, 1, Len(cycles) - 1)),
                     cycles[Len(cycles)])

\* (variant: the array is processed in the order given)
sortedCyclesOf_AsGiven(historicalCycles) == historicalCycles

\* the array the analysis works on: a sorted copy of the caller's
sortedCyclesOf(historicalCycles) == SortByStatementDate(historicalCycles)

\* the caller's array once the analysis has returned: the sort ran on a
\* copy
CallerArrayAfter(historicalCycles) == historicalCycles

\* days between consecutive statements
cycleLengthsOf(sortedCycles) ==
    ArrayOf([i \in 1..(Len(sortedCycles) - 1) |->
        differenceInDays(sortedCycles[i + 1].statementDate, sortedCycles[i].statementDate)])

\* calculateMode(cycleLengths) || calculateMedian(cycleLengths), in
\* halves: null and 0 are falsy
typicalCycleLengthOf(cycleLengths) ==
    LET mode == calculateMode(cycleLengths)
    IN  IF mode = Null \/ mode = Some(0)
        THEN calculateMedian(cycleLengths)
        ELSE 2 * mode[1]

isConsistentLengthOf(cycleLengths) == VarianceBelow(calculateVariance(cycleLengths), 4)

statementDaysOf(sortedCycles) ==
    ArrayOf([i \in 1..Len(sortedCycles) |-> getDate(sortedCycles[i].statementDate)])

\* (variant: any spread of at most 3 days counts, month-end or not)
checkStatementDayConsistency_AnySmallSpread(cycles) ==
    LET days == statementDaysOf(cycles)
    IN  MaxOf(days) - MinOf(days) <= 3

checkStatementDayConsistency(cycles) ==
    LET days   == statementDaysOf(cycles)
        maxDay == MaxOf(days)
        minDay == MinOf(days)
    IN  IF Cardinality({days[i] : i \in 1..Len(days)}) = 1 THEN TRUE
        ELSE IF maxDay - minDay <= 3 /\ maxDay >= 28 THEN TRUE
        ELSE FALSE

statementDayOfMonthOf(sortedCycles) ==
    IF checkStatementDayConsistency(sortedCycles)
    THEN calculateMode(statementDaysOf(sortedCycles))
    ELSE Null

dueDateOffsetsOf(sortedCycles) ==
    ArrayOf([i \in 1..Len(sortedCycles) |->
        differenceInDays(sortedCycles[i].dueDate, sortedCycles[i].statementDate)])

dueDateOffsetOf(dueDateOffsets) == MathRound(calculateMedian(dueDateOffsets))

\* (variant: a variance of exactly 4 still counts as consistent)
isConsistentOffsetOf_Inclusive(dueDateOffsets) ==
    VarianceBelow(calculateVariance(dueDateOffsets), 4)
    \/ calculateVariance(dueDateOffsets).num = 4 * calculateVariance(dueDateOffsets).den

isConsistentOffsetOf(dueDateOffsets) == VarianceBelow(calculateVariance(dueDateOffsets), 4)

\* (variant: the statement-day bonus is 0.15)
confidenceOf_DayBonus15(length, isConsistentLength, isConsistentDay, isConsistentOffset) ==
    LET base     == DblLit(5, 10)
        quantity == IF length >= 6 THEN DblAdd(base, DblLit(2, 10))
                    ELSE IF length >= 3 THEN DblAdd(base, DblLit(1, 10))
                    ELSE base
        c1       == IF isConsistentLength THEN DblAdd(quantity, DblLit(15, 100)) ELSE quantity
        c2       == IF isConsistentDay THEN DblAdd(c1, DblLit(15, 100)) ELSE c1
        c3       == IF isConsistentOffset THEN DblAdd(c2, DblLit(5, 100)) ELSE c2
    IN  MathMin(c3, DblLit(1, 1))

\* (variant: the two quantity bonuses exchanged)
confidenceOf_TiersSwapped(length, isConsistentLength, isConsistentDay, isConsistentOffset) ==
    LET base     == DblLit(5, 10)
        quantity == IF length >= 6 THEN DblAdd(base, DblLit(1, 10))
                    ELSE IF length >= 3 THEN DblAdd(base, DblLit(2, 10))
                    ELSE base
        c1       == IF isConsistentLength THEN DblAdd(quantity, DblLit(15, 100)) ELSE quantity
        c2       == IF isConsistentDay THEN DblAdd(c1, DblLit(1, 10)) ELSE c1
        c3       == IF isConsistentOffset THEN DblAdd(c2, DblLit(5, 100)) ELSE c2
    IN  MathMin(c3, DblLit(1, 1))

\* the confidence score
confidenceOf(length, isConsistentLength, isConsistentDay, isConsistentOffset) ==
    LET base     == DblLit(5, 10)
        quantity == IF length >= 6 THEN DblAdd(base, DblLit(2, 10))
                    ELSE IF length >= 3 THEN DblAdd(base, DblLit(1, 10))
                    ELSE base
        c1       == IF isConsistentLength THEN DblAdd(quantity, DblLit(15, 100)) ELSE quantity
        c2       == IF isConsistentDay THEN DblAdd(c1, DblLit(1, 10)) ELSE c1
        c3       == IF isConsistentOffset THEN DblAdd(c2, DblLit(5, 100)) ELSE c2
    IN  MathMin(c3, DblLit(1, 1))

\* (variant: 'high' without the floor of 6 cycles)
qualityOf_NoCountFloor(confidence, length) ==
    IF DblGeq(confidence, DblLit(8, 10)) THEN "high"
    ELSE IF DblGeq(confidence, DblLit(6, 10)) /\ length >= 3 THEN "medium"
    ELSE "low"

qualityOf(confidence, length) ==
    IF DblGeq(confidence, DblLit(8, 10)) /\ length >= 6 THEN "high"
    ELSE IF DblGeq(confidence, DblLit(6, 10)) /\ length >= 3 THEN "medium"
    ELSE "low"

\* the result for fewer than 2 cycles
\* (variant: the early return carries no insight)
InsufficientData_NoInsight ==
    [pattern  |-> [typicalCycleLength  |-> 2 * 30,
                   statementDayOfMonth |-> Null,
                   dueDateOffset       |-> 21,
                   confidence          |-> DblLit(3, 10)],
     quality  |-> "low",
     insights |-> <<>>]

\* the result for fewer than 2 cycles
InsufficientData ==
    [pattern  |-> [typicalCycleLength  |-> 2 * 30,
                   statementDayOfMonth |-> Null,
                   dueDateOffset       |-> 21,
                   confidence          |-> DblLit(3, 10)],
     quality  |-> "low",
     insights |-> << <<"Insufficient historical data. Need at least 2 billing cycles.", <<>> >> >>]

\* An insight is <<template, <<the numbers put into it>> >>.
insightsOf(cycleLengths, typicalCycleLength, isConsistentLength, isConsistentDay, mostCommonDay, isConsistentOffset, dueDateOffset) ==
    << IF isConsistentLength
       THEN <<"Consistent billing cycle of ${typicalCycleLength} days", <<typicalCycleLength>> >>
       ELSE <<"Variable billing cycle (${min}-${max} days)",
              <<MinOf(cycleLengths), MaxOf(cycleLengths)>> >>,
       IF isConsistentDay /\ mostCommonDay # Null /\ mostCommonDay # Some(0)
       THEN <<"Statements typically close on day ${mostCommonDay} of the month", mostCommonDay>>
       ELSE <<"Statement dates vary by month", <<>> >>,
       IF isConsistentOffset
       THEN <<"Payment typically due ${dueDateOffset} days after statement", <<dueDateOffset>> >>
       ELSE <<"Due date offset varies between cycles", <<>> >> >>

\* (variant: only the empty history is too short)
hasTooFewCycles_OnlyEmpty(cycles) == Len(cycles) < 1

\* "Need at least 2 cycles to detect a pattern"
hasTooFewCycles(cycles) == Len(cycles) < 2

analyzeBillingCyclePattern(cycles) ==
    IF hasTooFewCycles(cycles) THEN InsufficientData
    ELSE
      LET sortedCycles       == sortedCyclesOf(cycles)
          cycleLengths       == cycleLengthsOf(sortedCycles)
          typicalCycleLength == typicalCycleLengthOf(cycleLengths)
          isConsistentLength == isConsistentLengthOf(cycleLengths)
          mostCommonDay      == calculateMode(statementDaysOf(sortedCycles))
          isConsistentDay    == checkStatementDayConsistency(sortedCycles)
          dueDateOffsets     == dueDateOffsetsOf(sortedCycles)
          dueDateOffset      == dueDateOffsetOf(dueDateOffsets)
          isConsistentOffset == isConsistentOffsetOf(dueDateOffsets)
          confidence         == confidenceOf(Len(cycles), isConsistentLength,
                                             isConsistentDay, isConsistentOffset)
      IN  [pattern  |-> [typicalCycleLength  |-> typicalCycleLength,
                         statementDayOfMonth |-> statementDayOfMonthOf(sortedCycles),
                         dueDateOffset       |-> dueDateOffset,
                         confidence          |-> confidence],
           quality  |-> qualityOf(confidence, Len(cycles)),
           insights |-> insightsOf(cycleLengths, typicalCycleLength, isConsistentLength,
                                   isConsistentDay, mostCommonDay, isConsistentOffset,
                                   dueDateOffset)]

\* ------------------------------------------------------------------------
\* Projection
\* ------------------------------------------------------------------------

\* (variant: the cycle's last instant is not part of it)
RECURSIVE ScanCycles_EndExclusive(_, _, _)
ScanCycles_EndExclusive(transactionDate, cycles, k) ==
    IF k > Len(cycles) THEN Null
    ELSE IF /\ transactionDate >= cycles[k].cycleStartDate
            /\ transactionDate < cycles[k].cycleEndDate
         THEN Some(cycles[k])
    ELSE ScanCycles_EndExclusive(transactionDate, cycles, k + 1)

\* for (const cycle of cycles), from the k-th cycle on
RECURSIVE ScanCycles(_, _, _)
ScanCycles(transactionDate, cycles, k) ==
    IF k > Len(cycles) THEN Null
    ELSE IF /\ transactionDate >= cycles[k].cycleStartDate
            /\ transactionDate <= cycles[k].cycleEndDate
         THEN Some(cycles[k])
    ELSE ScanCycles(transactionDate, cycles, k + 1)

\* returns Some(cycle), or Null
assignTransactionToCycle(transactionDate, cycles) ==
    ScanCycles(transactionDate, cycles, 1)

\* the factor of the data source
provenanceFactorOf(dataSource) ==
    IF dataSource = "plaid" THEN DblLit(1, 1)
    ELSE IF dataSource = "inferred" THEN DblLit(85, 100)
    ELSE DblLit(7, 10)

\* Math.max(0.5, 1 - (dataAgeHours - 48) / 720), for dataAgeHours > 48
stalenessFactorOf(dataAgeHours) ==
    LET decay == SignedSub(DblInt(1), DblLit(dataAgeHours - 48, 720))
    IN  IF decay.neg \/ DblLess(decay.mag, DblLit(5, 10)) THEN DblLit(5, 10) ELSE decay.mag

\* (variant: the result is not clamped from above)
clampToUnitInterval_NoCeiling(confidence) ==
    IF confidence.neg THEN DblZero ELSE confidence.mag

\* Math.max(0, Math.min(1, confidence))
clampToUnitInterval(confidence) ==
    IF confidence.neg THEN DblZero
    ELSE IF DblLess(DblInt(1), confidence.mag) THEN DblInt(1)
    ELSE confidence.mag

\* patternConfidence is a double of either sign; the result is in [0, 1]
calculateCycleConfidence(dataSource, dataAgeHours, patternConfidence) ==
    LET sourced == SignedMul(provenanceFactorOf(dataSource), patternConfidence)
        aged    == IF dataAgeHours > 48
                   THEN SignedMul(stalenessFactorOf(dataAgeHours), sourced)
                   ELSE sourced
    IN  clampToUnitInterval(aged)

\* confidence >= n / 100, for a confidence of either sign
AtLeastHundredths(confidence, n) == ~SignedLess(confidence, Signed(FALSE, DblLit(n, 100)))

\* (variant: exactly 0.85 is not yet the first tier)
getConfidenceMessage_StrictHigh(confidence) ==
    IF SignedLess(Signed(FALSE, DblLit(85, 100)), confidence) THEN "Updated today from your bank"
    ELSE IF AtLeastHundredths(confidence, 65) THEN "Estimated based on your typical cycle pattern"
    ELSE IF AtLeastHundredths(confidence, 45) THEN "Projection based on limited data"
    ELSE "Unable to sync. Please verify manually"

getConfidenceMessage(confidence) ==
    IF AtLeastHundredths(confidence, 85) THEN "Updated today from your bank"
    ELSE IF AtLeastHundredths(confidence, 65) THEN "Estimated based on your typical cycle pattern"
    ELSE IF AtLeastHundredths(confidence, 45) THEN "Projection based on limited data"
    ELSE "Unable to sync. Please verify manually"

getConfidenceColor(confidence) ==
    IF AtLeastHundredths(confidence, 85) THEN "text-green-600 bg-green-50"
    ELSE IF AtLeastHundredths(confidence, 65) THEN "text-blue-600 bg-blue-50"
    ELSE IF AtLeastHundredths(confidence, 45) THEN "text-yellow-600 bg-yellow-50"
    ELSE "text-red-600 bg-red-50"

getConfidenceLabel(confidence) ==
    IF AtLeastHundredths(confidence, 85) THEN "High"
    ELSE IF AtLeastHundredths(confidence, 65) THEN "Medium"
    ELSE IF AtLeastHundredths(confidence, 45) THEN "Low"
    ELSE "Very Low"

\* (variant: the target day is set whatever the month's length)
adjustForMonthEnd_NoClamp(date, targetDay) == setDate(date, targetDay)

adjustForMonthEnd(date, targetDay) ==
    IF targetDay > lastDayOfMonth(date)
    THEN setDate(date, lastDayOfMonth(date))
    ELSE setDate(date, targetDay)

\* the statement date that follows currentStatementDate
nextStatementDateOf(currentStatementDate, pattern) ==
    IF pattern.statementDayOfMonth # Null
    THEN adjustForMonthEnd(addMonths(currentStatementDate, 1), pattern.statementDayOfMonth[1])
    ELSE addDays(currentStatementDate, pattern.typicalCycleLength)

\* (variant: the cycle starts on the previous statement's day)
cycleStartDateOf_SameDay(currentStatementDate) == currentStatementDate

\* the day after the previous statement
cycleStartDateOf(currentStatementDate) == addDays(currentStatementDate, 2 * 1)

\* (variant: the confidence floored at 0)
projectionConfidenceOf_Floored(pattern, i) ==
    LET c == SignedMul(pattern.confidence,
                       SignedSub(DblInt(1), DblMul(DblInt(i), DblLit(5, 100))))
    IN  IF c.neg THEN Signed(FALSE, DblZero) ELSE c

\* pattern.confidence * (1 - i * 0.05), of either sign
projectionConfidenceOf(pattern, i) ==
    SignedMul(pattern.confidence,
              SignedSub(DblInt(1), DblMul(DblInt(i), DblLit(5, 100))))

\* the projection pushed by iteration i of the loop
projectionOf(currentStatementDate, pattern, i) ==
    LET nextStatementDate == nextStatementDateOf(currentStatementDate, pattern)
        cycleStartDate    == cycleStartDateOf(currentStatementDate)
        paymentDueDate    == addDays(nextStatementDate, 2 * pattern.dueDateOffset)
    IN  [cycleStartDate |-> startOfDay(cycleStartDate),
         cycleEndDate   |-> startOfDay(nextStatementDate),
         paymentDueDate |-> startOfDay(paymentDueDate),
         isProjected    |-> TRUE,
         confidence     |-> projectionConfidenceOf(pattern, i)]

\* iterations i .. monthsAhead - 1 of the loop
RECURSIVE ProjectLoop(_, _, _, _)
ProjectLoop(currentStatementDate, pattern, i, monthsAhead) ==
    IF ~(i < monthsAhead) THEN <<>>
    ELSE <<projectionOf(currentStatementDate, pattern, i)>>
         \o ProjectLoop(nextStatementDateOf(currentStatementDate, pattern),
                        pattern, i + 1, monthsAhead)

\* (variant: one iteration more)
projectFutureCycles_OneMore(lastKnownCycle, pattern, monthsAhead) ==
    ProjectLoop(lastKnownCycle.statementDate, pattern, 0, monthsAhead + 1)

projectFutureCycles(lastKnownCycle, pattern, monthsAhead) ==
    ProjectLoop(lastKnownCycle.statementDate, pattern, 0, monthsAhead)

\* ------------------------------------------------------------------------
\* The cycles a caller can have observed
\* ------------------------------------------------------------------------

\* Six month-end statements of 2024 (a "31st" issuer, clipped by short
\* months), a mid-month statement closed at a later time of day, and a
\* statement whose due date precedes it.
KnownCycles ==
    { Cycle(DateAt(2024, 1, 31, 0), DateAt(2024, 2, 21, 0)),
      Cycle(DateAt(2024, 2, 29, 0), DateAt(2024, 3, 21, 0)),
      Cycle(DateAt(2024, 3, 31, 0), DateAt(2024, 4, 21, 0)),
      Cycle(DateAt(2024, 4, 30, 0), DateAt(2024, 5, 21, 0)),
      Cycle(DateAt(2024, 5, 31, 0), DateAt(2024, 6, 21, 0)),
      Cycle(DateAt(2024, 6, 30, 0), DateAt(2024, 7, 25, 0)),
      Cycle(DateAt(2024, 3, 15, 1), DateAt(2024, 4, 14, 0)),
      Cycle(DateAt(2024, 4, 17, 0), DateAt(2024, 4, 15, 0)) }

\* the permutations of 1..n
Orderings(n) == {p \in [1..n -> 1..n] : \A i, j \in 1..n : p[i] = p[j] => i = j}

Permuted(xs, p) == ArrayOf([i \in 1..Len(xs) |-> xs[p[i]]])

Reversed(xs) == ArrayOf([i \in 1..Len(xs) |-> xs[Len(xs) + 1 - i]])

IsChronological(cycles) ==
    \A i \in 1..(Len(cycles) - 1) : cycles[i].statementDate <= cycles[i + 1].statementDate

\* ------------------------------------------------------------------------
\* State
\* ------------------------------------------------------------------------

VARIABLES
    historicalCycles,   \* the caller's array of observed cycles
    analysis,           \* Null, or Some(result of the last analysis of it)
    monthsAhead,        \* the monthsAhead of the last projection call
    projections,        \* Null, or Some(array the last projection call returned)
    helperCall,         \* Null, or a call of one of the engine's helper functions
    billingCycles,      \* the rows of table billingCycle of one card, in order of creation
    statementNo,        \* the number of statements the issuer has closed
    sync,               \* for each request slot, the locals of POST /api/plaid/sync-liabilities
    syncsStarted,       \* the number of sync requests received
    overlaps,           \* the number of them received while another was handled
    lastSynced          \* Null, or Some(liability data of the last sync that responded)

engineVars == <<historicalCycles, analysis, monthsAhead, projections, helperCall>>

serverVars == <<billingCycles, statementNo, sync, syncsStarted, overlaps, lastSynced>>

vars == <<historicalCycles, analysis, monthsAhead, projections, helperCall,
          billingCycles, statementNo, sync, syncsStarted, overlaps, lastSynced>>

\* the request slots of the server
Requests == 1..MaxRequests

\* the locals of a slot that handles no request
Idle ==
    [pc         |-> "idle",
     liability  |-> Null,
     creditCard |-> <<>>,
     analysis   |-> Null,
     pending    |-> <<>>,
     created    |-> 0,
     repeat     |-> FALSE]

\* no statement closed, nothing stored, no request received
NoSync ==
    /\ billingCycles = <<>>
    /\ statementNo = 0
    /\ sync = [r \in Requests |-> Idle]
    /\ syncsStarted = 0
    /\ overlaps = 0
    /\ lastSynced = Null

Init ==
    /\ historicalCycles = <<>>
    /\ analysis = Null
    /\ monthsAhead = 0
    /\ projections = Null
    /\ helperCall = Null
    /\ NoSync

\* The caller records one more statement; statements arrive in the order
\* they are issued.
Observe(c) ==
    /\ Len(historicalCycles) < MaxCycles
    /\ IsChronological(historicalCycles \o <<c>>)
    /\ historicalCycles' = Append(historicalCycles, c)
    /\ analysis' = Null
    /\ monthsAhead' = 0
    /\ projections' = Null
    /\ helperCall' = Null
    /\ UNCHANGED serverVars

\* The caller holds the cycles newest first (a query ordered by
\* cycleEndDate descending, as sync-liabilities issues it).
Reverse ==
    /\ analysis = Null
    /\ Reversed(historicalCycles) # historicalCycles
    /\ historicalCycles' = Reversed(historicalCycles)
    /\ UNCHANGED <<analysis, monthsAhead, projections, helperCall>>
    /\ UNCHANGED serverVars

\* The caller holds a short history in any order.
Shuffle(p) ==
    /\ analysis = Null
    /\ Len(historicalCycles) <= MaxShuffled
    /\ Permuted(historicalCycles, p) # historicalCycles
    /\ historicalCycles' = Permuted(historicalCycles, p)
    /\ UNCHANGED <<analysis, monthsAhead, projections, helperCall>>
    /\ UNCHANGED serverVars

\* A call of analyzeBillingCyclePattern(historicalCycles).
Analyze ==
    /\ analysis = Null
    /\ analysis' = Some(analyzeBillingCyclePattern(historicalCycles))
    /\ historicalCycles' = CallerArrayAfter(historicalCycles)
    /\ UNCHANGED <<monthsAhead, projections, helperCall>>
    /\ UNCHANGED serverVars

\* the cycle the caller projects from: historicalCycles[0]
lastKnownCycle == historicalCycles[1]

\* A call of projectFutureCycles(historicalCycles[0], analysis.pattern, m),
\* as sync-liabilities makes it.
Project(m) ==
    /\ analysis # Null
    /\ projections = Null
    /\ Len(historicalCycles) > 0
    /\ monthsAhead' = m
    /\ projections' = Some(projectFutureCycles(lastKnownCycle, analysis[1].pattern, m))
    /\ UNCHANGED <<historicalCycles, analysis, helperCall>>
    /\ UNCHANGED serverVars

\* A call of projectFutureCycles far ahead.
ProjectLong ==
    /\ Len(historicalCycles) <= MaxLongHistory
    /\ Project(LongHorizon)

\* the instants around the ends of the first and of the last cycle of a
\* non-empty array: one tick before the start, the start, the end, and
\* one tick after the end
BoundaryDates(cycles) ==
    UNION {{cycles[k].cycleStartDate - 1, cycles[k].cycleStartDate,
            cycles[k].cycleEndDate, cycles[k].cycleEndDate + 1} :
           k \in {1, Len(cycles)}}

\* A call of assignTransactionToCycle(t, projections) for a transaction
\* at the instant t.
AssignToProjected(t) ==
    /\ helperCall = Null
    /\ helperCall' = [op              |-> "assignTransactionToCycle",
                      transactionDate |-> t,
                      cycles          |-> projections[1],
                      returned        |-> Some(assignTransactionToCycle(t, projections[1]))]
    /\ UNCHANGED <<historicalCycles, analysis, monthsAhead, projections>>
    /\ UNCHANGED serverVars

\* A transaction around the ends of the projected cycles is assigned.
AssignTransaction ==
    /\ projections # Null
    /\ projections # Some(<<>>)
    /\ \E t \in BoundaryDates(projections[1]) : AssignToProjected(t)

\* The caller gathers a history and analyses it.
NextAnalysis ==
    \/ \E c \in KnownCycles : Observe(c)
    \/ Reverse
    \/ /\ Len(historicalCycles) <= MaxShuffled
       /\ \E p \in Orderings(Len(historicalCycles)) : Shuffle(p)
    \/ Analyze

\* ... and projects the future cycles from the analysis.
Next ==
    \/ NextAnalysis
    \/ \E m \in -1..MaxMonthsAhead : Project(m)
    \/ ProjectLong

\* ... and assigns transactions to the projected cycles.
NextAssign ==
    \/ Next
    \/ AssignTransaction

AnalysisSpec == Init /\ [][NextAnalysis]_vars

\* ------------------------------------------------------------------------
\* Calls of the helper functions, one function applied to one input
\* ------------------------------------------------------------------------

\* no history is involved in a helper call
NoHistory ==
    /\ historicalCycles = <<>>
    /\ analysis = Null
    /\ monthsAhead = 0
    /\ projections = Null

\* dates handed to adjustForMonthEnd: the first, a middle, the 28th and the
\* last day of every month of a common and of a leap year
AdjustDates ==
    {DateAt(y, m, d, t) : y \in {2023, 2024}, m \in 1..12,
                          d \in {1, 15, 28}, t \in 0..(TicksPerDay - 1)}
    \cup {DateAt(y, m, DaysInMonth(y, m), 0) : y \in {2023, 2024}, m \in 1..12}

AdjustCalls ==
    [op : {"adjustForMonthEnd"}, date : AdjustDates, targetDay : 1..31, returned : {Null}]

\* the function returns
CallAdjustForMonthEnd ==
    /\ helperCall # Null
    /\ helperCall.op = "adjustForMonthEnd"
    /\ helperCall.returned = Null
    /\ helperCall' = [helperCall EXCEPT
                        !.returned = Some(adjustForMonthEnd(helperCall.date, helperCall.targetDay))]
    /\ UNCHANGED <<historicalCycles, analysis, monthsAhead, projections>>
    /\ UNCHANGED serverVars

\* a BillingCycleProjection
Projection(cycleStartDate, cycleEndDate, paymentDueDate, hundredths) ==
    [cycleStartDate |-> cycleStartDate,
     cycleEndDate   |-> cycleEndDate,
     paymentDueDate |-> paymentDueDate,
     isProjected    |-> TRUE,
     confidence     |-> Signed(FALSE, DblLit(hundredths, 100))]

\* cycles handed to assignTransactionToCycle: February 2024, a cycle that
\* overlaps it, a cycle of one instant, and a cycle that ends before it
\* starts
AssignableCycles ==
    { Projection(DateAt(2024, 2, 1, 0), DateAt(2024, 2, 29, 0), DateAt(2024, 3, 21, 0), 90),
      Projection(DateAt(2024, 2, 15, 0), DateAt(2024, 3, 14, 0), DateAt(2024, 4, 4, 0), 85),
      Projection(DateAt(2024, 3, 1, 0), DateAt(2024, 3, 1, 0), DateAt(2024, 3, 22, 0), 81),
      Projection(DateAt(2024, 3, 20, 0), DateAt(2024, 3, 10, 0), DateAt(2024, 3, 31, 0), 77) }

TransactionDates ==
    {DateAt(2024, md[1], md[2], t) :
        md \in {<<1, 31>>, <<2, 1>>, <<2, 15>>, <<2, 29>>, <<3, 1>>, <<3, 12>>, <<3, 14>>, <<3, 15>>},
        t \in 0..(TicksPerDay - 1)}

AssignCalls ==
    [op : {"assignTransactionToCycle"},
     transactionDate : TransactionDates,
     cycles : UNION {[1..n -> AssignableCycles] : n \in 0..MaxAssigned},
     returned : {Null}]

CallAssignTransactionToCycle ==
    /\ helperCall # Null
    /\ helperCall.op = "assignTransactionToCycle"
    /\ helperCall.returned = Null
    /\ helperCall' = [helperCall EXCEPT
                        !.returned = Some(assignTransactionToCycle(helperCall.transactionDate,
                                                                  helperCall.cycles))]
    /\ UNCHANGED <<historicalCycles, analysis, monthsAhead, projections>>
    /\ UNCHANGED serverVars

DataSources == {"plaid", "inferred", "manual"}

\* ages in hours: fresh, around the 48 hours, along the decay, around the
\* floor (408 h), around 30 days (720 h, and 768 h = 48 h + 30 days), older
DataAgeHours ==
    {0, 24, 48, 54, 72, 120, 240, 407, 408, 409, 500, 719, 720, 767, 768, 769, 1000}

\* pattern confidences in hundredths, also outside [0, 1]
PatternConfidences ==
    {Signed(FALSE, DblLit(k, 100)) : k \in {0, 30, 45, 50, 65, 70, 85, 90, 100, 150}}
    \cup {Signed(TRUE, DblLit(20, 100))}

ConfidenceCalls ==
    [op : {"calculateCycleConfidence"},
     dataSource : DataSources,
     dataAgeHours : DataAgeHours,
     patternConfidence : PatternConfidences,
     returned : {Null}]

CallCalculateCycleConfidence ==
    /\ helperCall # Null
    /\ helperCall.op = "calculateCycleConfidence"
    /\ helperCall.returned = Null
    /\ helperCall' = [helperCall EXCEPT
                        !.returned = Some(calculateCycleConfidence(helperCall.dataSource,
                                                                  helperCall.dataAgeHours,
                                                                  helperCall.patternConfidence))]
    /\ UNCHANGED <<historicalCycles, analysis, monthsAhead, projections>>
    /\ UNCHANGED serverVars

\* confidences shown to the user: every hundredth from 0 to 1.2, the
\* scores the analysis computes (sums of doubles), the first projections'
\* confidences of a pattern of 0.9, and a negative one
ShownConfidences ==
    {Signed(FALSE, DblLit(k, 100)) : k \in 0..120}
    \cup {Signed(FALSE, confidenceOf(n, l, d, o)) : n \in {2, 3, 6}, l \in BOOLEAN,
                                                   d \in BOOLEAN, o \in BOOLEAN}
    \cup {projectionConfidenceOf([confidence |-> DblLit(9, 10)], i) : i \in 0..LongHorizon}

TierCalls ==
    [op : {"confidenceTier"}, confidence : ShownConfidences,
     message : {Null}, label : {Null}, color : {Null}]

CallGetConfidenceMessage ==
    /\ helperCall # Null
    /\ helperCall.op = "confidenceTier"
    /\ helperCall.message = Null
    /\ helperCall' = [helperCall EXCEPT !.message = Some(getConfidenceMessage(helperCall.confidence))]
    /\ UNCHANGED <<historicalCycles, analysis, monthsAhead, projections>>
    /\ UNCHANGED serverVars

CallGetConfidenceLabel ==
    /\ helperCall # Null
    /\ helperCall.op = "confidenceTier"
    /\ helperCall.label = Null
    /\ helperCall' = [helperCall EXCEPT !.label = Some(getConfidenceLabel(helperCall.confidence))]
    /\ UNCHANGED <<historicalCycles, analysis, monthsAhead, projections>>
    /\ UNCHANGED serverVars

CallGetConfidenceColor ==
    /\ helperCall # Null
    /\ helperCall.op = "confidenceTier"
    /\ helperCall.color = Null
    /\ helperCall' = [helperCall EXCEPT !.color = Some(getConfidenceColor(helperCall.confidence))]
    /\ UNCHANGED <<historicalCycles, analysis, monthsAhead, projections>>
    /\ UNCHANGED serverVars

\* numbers handed to the statistical helpers: day counts and offsets, of
\* either sign
Numbers == {-2, -1, 0, 1, 3}

NumberArrays == UNION {[1..n -> Numbers] : n \in 0..MaxNumbers}

\* a call with the caller's array numbers; given keeps the array as it was
\* when the call was made
StatisticsCalls ==
    {[op |-> op, numbers |-> numbers, given |-> numbers, returned |-> Null] :
        op \in {"calculateMode", "calculateMedian", "calculateVariance"},
        numbers \in NumberArrays}

\* the caller's array once a statistical helper has returned: forEach,
\* reduce and map do not write to it, and the sort ran on a copy
NumbersAfter(numbers) == numbers

CallCalculateMode ==
    /\ helperCall # Null
    /\ helperCall.op = "calculateMode"
    /\ helperCall.returned = Null
    /\ helperCall' = [helperCall EXCEPT
                        !.returned = Some(calculateMode(helperCall.numbers)),
                        !.numbers = NumbersAfter(helperCall.numbers)]
    /\ UNCHANGED <<historicalCycles, analysis, monthsAhead, projections>>
    /\ UNCHANGED serverVars

CallCalculateMedian ==
    /\ helperCall # Null
    /\ helperCall.op = "calculateMedian"
    /\ helperCall.returned = Null
    /\ helperCall' = [helperCall EXCEPT
                        !.returned = Some(calculateMedian(helperCall.numbers)),
                        !.numbers = NumbersAfter(helperCall.numbers)]
    /\ UNCHANGED <<historicalCycles, analysis, monthsAhead, projections>>
    /\ UNCHANGED serverVars

CallCalculateVariance ==
    /\ helperCall # Null
    /\ helperCall.op = "calculateVariance"
    /\ helperCall.returned = Null
    /\ helperCall' = [helperCall EXCEPT
                        !.returned = Some(calculateVariance(helperCall.numbers)),
                        !.numbers = NumbersAfter(helperCall.numbers)]
    /\ UNCHANGED <<historicalCycles, analysis, monthsAhead, projections>>
    /\ UNCHANGED serverVars

HelperInit ==
    /\ NoHistory
    /\ NoSync
    /\ \/ helperCall \in AdjustCalls
       \/ helperCall \in AssignCalls
       \/ helperCall \in ConfidenceCalls
       \/ helperCall \in TierCalls
       \/ helperCall \in StatisticsCalls

HelperNext ==
    \/ CallAdjustForMonthEnd
    \/ CallAssignTransactionToCycle
    \/ CallCalculateCycleConfidence
    \/ CallGetConfidenceMessage
    \/ CallGetConfidenceLabel
    \/ CallGetConfidenceColor
    \/ CallCalculateMode
    \/ CallCalculateMedian
    \/ CallCalculateVariance

HelperSpec == HelperInit /\ [][HelperNext]_vars

Spec == Init /\ [][Next]_vars

AssignSpec == Init /\ [][NextAssign]_vars

\* ------------------------------------------------------------------------
\* The liabilities sync: POST /api/plaid/sync-liabilities, for one credit
\* card. Every awaited database call is one step; requests interleave
\* between the steps. The server runs in UTC, so that the dates Plaid
\* gives (new Date("2024-03-15")) are starts of days.
\* ------------------------------------------------------------------------

\* projectFutureCycles(..., 6)
ProjectedMonths == 6

\* take: 12
TakeCycles == 12

\* new Date(0)
Epoch == DateAt(1970, 1, 1, 0)

\* the statements the issuer closes, one a month on the 15th, each due 21
\* days later
Statements ==
    << [last_statement_issue_date |-> DateAt(2024, 1, 15, 0),
        next_payment_due_date     |-> DateAt(2024, 2, 5, 0)],
       [last_statement_issue_date |-> DateAt(2024, 2, 15, 0),
        next_payment_due_date     |-> DateAt(2024, 3, 7, 0)],
       [last_statement_issue_date |-> DateAt(2024, 3, 15, 0),
        next_payment_due_date     |-> DateAt(2024, 4, 5, 0)],
       [last_statement_issue_date |-> DateAt(2024, 4, 15, 0),
        next_payment_due_date     |-> DateAt(2024, 5, 6, 0)] >>

\* the dates of the card's liability as liabilitiesGet returns them once
\* n statements are closed: lastStatementDate and nextDueDate, null
\* before the first statement
LiabilityAfter(n) ==
    IF n = 0 THEN [lastStatementDate |-> Null, nextDueDate |-> Null]
    ELSE [lastStatementDate |-> Some(Statements[n].last_statement_issue_date),
          nextDueDate       |-> Some(Statements[n].next_payment_due_date)]

\* the row created for the statement Plaid reports
ObservedCycle(lastStatementDate, nextDueDate) ==
    [cycleStartDate |-> Epoch,
     cycleEndDate   |-> lastStatementDate,
     paymentDueDate |-> nextDueDate,
     dataSource     |-> "plaid",
     confidence     |-> Signed(FALSE, DblLit(95, 100)),
     isProjected    |-> FALSE]

\* the row created for a projection
ProjectedCycle(projection) ==
    [cycleStartDate |-> projection.cycleStartDate,
     cycleEndDate   |-> projection.cycleEndDate,
     paymentDueDate |-> projection.paymentDueDate,
     dataSource     |-> "inferred",
     confidence     |-> projection.confidence,
     isProjected    |-> TRUE]

\* orderBy: { cycleEndDate: 'desc' }
RECURSIVE InsertByEndDesc(_, _)
InsertByEndDesc(sorted, row) ==
    IF sorted = <<>> THEN <<row>>
    ELSE IF Head(sorted).cycleEndDate >= row.cycleEndDate
         THEN <<Head(sorted)>> \o InsertByEndDesc(Tail(sorted), row)
    ELSE <<row>> \o sorted

RECURSIVE OrderByEndDesc(_)
OrderByEndDesc(rows) ==
    IF rows = <<>> THEN <<>>
    ELSE InsertByEndDesc(OrderByEndDesc(SubSeq(rows, 1, Len(rows) - 1)), rows[Len(rows)])

\* take: n
Take(rows, n) == SubSeq(rows, 1, IF Len(rows) < n THEN Len(rows) ELSE n)

\* The billingCycles included with the card: the 12 rows of the latest
\* cycleEndDate, latest first. Rows of equal cycleEndDate come in the
\* order the database chooses: in the order of creation, or in the
\* opposite one.
IncludedBillingCycles ==
    {Take(OrderByEndDesc(billingCycles), TakeCycles),
     Take(OrderByEndDesc(Reversed(billingCycles)), TakeCycles)}

\* billingCycle.findFirst({ where: { creditCardId, cycleEndDate } }) finds
\* a row
FindFirst(cycleEndDate) ==
    \E k \in 1..Len(billingCycles) : billingCycles[k].cycleEndDate = cycleEndDate

\* creditCard.billingCycles.map(cycle => ({ statementDate, dueDate }))
HistoricalCyclesOf(creditCard) ==
    ArrayOf([k \in 1..Len(creditCard) |->
        Cycle(creditCard[k].cycleEndDate, creditCard[k].paymentDueDate)])

\* The issuer closes the next statement.
CloseStatement ==
    /\ statementNo < MaxStatements
    /\ statementNo' = statementNo + 1
    /\ UNCHANGED <<billingCycles, sync, syncsStarted, overlaps, lastSynced>>
    /\ UNCHANGED engineVars

\* no request is being handled
NoneHandled == \A q \in Requests : sync[q].pc = "idle"

\* A request arrives and takes the first free slot;
\* plaidClient.liabilitiesGet returns the card's liability. The sync
\* repeats the last one when no other request is being handled and Plaid's
\* data are those of the last sync that responded.
GetLiabilities(r) ==
    /\ sync[r].pc = "idle"
    /\ \A q \in Requests : q < r => sync[q].pc # "idle"
    /\ syncsStarted < MaxSyncs
    /\ NoneHandled \/ overlaps < MaxOverlaps
    /\ syncsStarted' = syncsStarted + 1
    /\ overlaps' = IF NoneHandled THEN overlaps ELSE overlaps + 1
    /\ sync' = [sync EXCEPT ![r] =
                  [Idle EXCEPT
                     !.pc = "findCreditCard",
                     !.liability = Some(LiabilityAfter(statementNo)),
                     !.repeat = /\ lastSynced = Some(LiabilityAfter(statementNo))
                                /\ NoneHandled]]
    /\ UNCHANGED <<billingCycles, statementNo, lastSynced>>
    /\ UNCHANGED engineVars

\* creditCard.findUnique with its billingCycles; then, without a
\* lastStatementDate, the request goes on to the analysis.
FindCreditCard(r) ==
    /\ sync[r].pc = "findCreditCard"
    /\ \E rows \in IncludedBillingCycles :
          sync' = [sync EXCEPT ![r].creditCard = rows,
                               ![r].pc = IF sync[r].liability[1].lastStatementDate # Null
                                         THEN "findExistingCycle"
                                         ELSE "analyze"]
    /\ UNCHANGED <<billingCycles, statementNo, syncsStarted, overlaps, lastSynced>>
    /\ UNCHANGED engineVars

\* existingCycle = billingCycle.findFirst({ cycleEndDate: lastStatementDate })
FindExistingCycle(r) ==
    /\ sync[r].pc = "findExistingCycle"
    /\ LET existingCycle == FindFirst(sync[r].liability[1].lastStatementDate[1])
           nextDueDate   == sync[r].liability[1].nextDueDate
       IN  sync' = [sync EXCEPT ![r].pc = IF ~existingCycle /\ nextDueDate # Null
                                          THEN "createObservedCycle"
                                          ELSE "analyze"]
    /\ UNCHANGED <<billingCycles, statementNo, syncsStarted, overlaps, lastSynced>>
    /\ UNCHANGED engineVars

\* billingCycle.create for the statement Plaid reports
CreateObservedCycle(r) ==
    /\ sync[r].pc = "createObservedCycle"
    /\ billingCycles' = Append(billingCycles,
                               ObservedCycle(sync[r].liability[1].lastStatementDate[1],
                                             sync[r].liability[1].nextDueDate[1]))
    /\ sync' = [sync EXCEPT ![r].pc = "analyze", ![r].created = @ + 1]
    /\ UNCHANGED <<statementNo, syncsStarted, overlaps, lastSynced>>
    /\ UNCHANGED engineVars

\* With 2 or more included cycles: the analysis, creditCard.update with
\* the pattern, and the projection of 6 cycles from the first included
\* cycle. Otherwise the request is done with the card.
AnalyzeAndProject(r) ==
    /\ sync[r].pc = "analyze"
    /\ LET historical == HistoricalCyclesOf(sync[r].creditCard)
       IN  IF Len(historical) >= 2
           THEN LET result == analyzeBillingCyclePattern(historical)
                IN  sync' = [sync EXCEPT
                               ![r].analysis = Some(result),
                               ![r].pending = projectFutureCycles(historical[1], result.pattern,
                                                                  ProjectedMonths),
                               ![r].pc = "findProjectedCycle"]
           ELSE sync' = [sync EXCEPT ![r].pc = "done"]
    /\ UNCHANGED <<billingCycles, statementNo, syncsStarted, overlaps, lastSynced>>
    /\ UNCHANGED engineVars

\* the pc after the projection at the head of pending is dealt with
AfterProjection(r) == IF Len(sync[r].pending) > 1 THEN "findProjectedCycle" ELSE "done"

\* exists = billingCycle.findFirst({ cycleEndDate: projection.cycleEndDate })
FindProjectedCycle(r) ==
    /\ sync[r].pc = "findProjectedCycle"
    /\ IF FindFirst(Head(sync[r].pending).cycleEndDate)
       THEN sync' = [sync EXCEPT ![r].pending = Tail(@), ![r].pc = AfterProjection(r)]
       ELSE sync' = [sync EXCEPT ![r].pc = "createProjectedCycle"]
    /\ UNCHANGED <<billingCycles, statementNo, syncsStarted, overlaps, lastSynced>>
    /\ UNCHANGED engineVars

\* billingCycle.create for the projection
CreateProjectedCycle(r) ==
    /\ sync[r].pc = "createProjectedCycle"
    /\ billingCycles' = Append(billingCycles, ProjectedCycle(Head(sync[r].pending)))
    /\ sync' = [sync EXCEPT ![r].pending = Tail(@),
                            ![r].pc = AfterProjection(r),
                            ![r].created = @ + 1]
    /\ UNCHANGED <<statementNo, syncsStarted, overlaps, lastSynced>>
    /\ UNCHANGED engineVars

\* plaidItem.update, syncLog.create, and the response
Respond(r) ==
    /\ sync[r].pc = "done"
    /\ lastSynced' = sync[r].liability
    /\ sync' = [sync EXCEPT ![r] = Idle]
    /\ UNCHANGED <<billingCycles, statementNo, syncsStarted, overlaps>>
    /\ UNCHANGED engineVars

SyncNext ==
    \/ CloseStatement
    \/ \E r \in Requests : GetLiabilities(r)
    \/ \E r \in Requests : FindCreditCard(r)
    \/ \E r \in Requests : FindExistingCycle(r)
    \/ \E r \in Requests : CreateObservedCycle(r)
    \/ \E r \in Requests : AnalyzeAndProject(r)
    \/ \E r \in Requests : FindProjectedCycle(r)
    \/ \E r \in Requests : CreateProjectedCycle(r)
    \/ \E r \in Requests : Respond(r)

SyncSpec == Init /\ [][SyncNext]_vars

\* ------------------------------------------------------------------------
\* Properties: what they read
\* ------------------------------------------------------------------------

Analyzed == analysis # Null

\* the result of the last call (when Analyzed)
result == analysis[1]

\* the three verdicts of an analysis of 2 or more cycles, read from its
\* insights
JudgedConsistentLength(r) ==
    r.insights[1][1] = "Consistent billing cycle of ${typicalCycleLength} days"

JudgedConsistentDay(r) ==
    r.insights[2][1] = "Statements typically close on day ${mostCommonDay} of the month"

JudgedConsistentOffset(r) ==
    r.insights[3][1] = "Payment typically due ${dueDateOffset} days after statement"

\* the double x is the decimal k/100, up to the rounding of the double
\* additions (2^-50)
EqualsHundredths(x, k) ==
    LET tolerance == <<0, 0, 0, 0, 1024>>
    IN  /\ DblLess(LimbsSub(DblLit(k, 100), tolerance), x)
        /\ DblLess(x, LimbsAdd(DblLit(k, 100), tolerance))

\* the number of elements of xs that satisfy Test
CountIf(xs, Test(_)) == Cardinality({i \in 1..Len(xs) : Test(xs[i])})

\* the k-th smallest element of xs, by counting
ElementOfRank(xs, k) ==
    CHOOSE x \in {xs[i] : i \in 1..Len(xs)} :
        LET below(y)   == y < x
            atMost(y)  == y <= x
        IN  CountIf(xs, below) < k /\ k <= CountIf(xs, atMost)

\* twice the median of a non-empty xs
TwiceMedian(xs) ==
    LET n == Len(xs)
    IN  IF n % 2 = 1 THEN 2 * ElementOfRank(xs, (n + 1) \div 2)
        ELSE ElementOfRank(xs, n \div 2) + ElementOfRank(xs, n \div 2 + 1)

\* population variance of a non-empty xs < limit, from the squared
\* deviations: sum (x - S/n)^2 / n < limit
PopulationVarianceBelow(xs, limit) ==
    LET n   == Len(xs)
        sum == SumSeq(xs, n)
        sq  == ArrayOf([i \in 1..n |-> (n * xs[i] - sum) * (n * xs[i] - sum)])
    IN  SumSeq(sq, n) < limit * n * n * n

\* v occurs in xs at least as often as every other value
IsMostFrequent(xs, v) ==
    LET isV(y) == y = v
    IN  /\ CountIf(xs, isV) > 0
        /\ \A i \in 1..Len(xs) :
              LET isOther(y) == y = xs[i]
              IN  CountIf(xs, isOther) <= CountIf(xs, isV)

AllDistinct(xs) == \A i, j \in 1..Len(xs) : xs[i] = xs[j] => i = j

\* the statement dates of a history, ascending
StatementDatesAscending(cycles) ==
    LET dates == ArrayOf([i \in 1..Len(cycles) |-> cycles[i].statementDate])
    IN  ArrayOf([k \in 1..Len(cycles) |-> ElementOfRank(dates, k)])

\* the day-differences between consecutive statement dates
ConsecutiveDifferences(cycles) ==
    LET dates == StatementDatesAscending(cycles)
    IN  ArrayOf([k \in 1..(Len(cycles) - 1) |-> differenceInDays(dates[k + 1], dates[k])])

\* the day-differences dueDate - statementDate, cycle by cycle
OffsetsOf(cycles) ==
    ArrayOf([i \in 1..Len(cycles) |->
        differenceInDays(cycles[i].dueDate, cycles[i].statementDate)])

DaysOfMonth(cycles) ==
    ArrayOf([i \in 1..Len(cycles) |-> getDate(cycles[i].statementDate)])

\* ------------------------------------------------------------------------
\* Properties
\* ------------------------------------------------------------------------

\* C1: a history of fewer than 2 cycles (empty or single) is answered with
\* exactly the default pattern {30, null, 21, 0.3}, quality 'low' and
\* exactly one insight.
C1_FallbackForShortHistory ==
    (Analyzed /\ Len(historicalCycles) < 2) =>
        /\ result.pattern = [typicalCycleLength  |-> 2 * 30,
                             statementDayOfMonth |-> Null,
                             dueDateOffset       |-> 21,
                             confidence          |-> DblLit(3, 10)]
        /\ result.quality = "low"
        /\ Len(result.insights) = 1

C1_Witness == Analyzed /\ Len(historicalCycles) = 1

\* C2: for 2 or more cycles the confidence is 0.5, plus 0.2 for at least
\* 6 cycles or else 0.1 for at least 3, plus 0.15 / 0.1 / 0.05 for a
\* consistent cycle length / statement day / due-date offset, clamped to
\* [0,1] (as a double: equal up to the rounding of the additions).
C2_ConfidenceScore ==
    (Analyzed /\ Len(historicalCycles) >= 2) =>
        LET n     == Len(historicalCycles)
            score == 50 + (IF n >= 6 THEN 20 ELSE IF n >= 3 THEN 10 ELSE 0)
                        + (IF JudgedConsistentLength(result) THEN 15 ELSE 0)
                        + (IF JudgedConsistentDay(result) THEN 10 ELSE 0)
                        + (IF JudgedConsistentOffset(result) THEN 5 ELSE 0)
            clamp == IF score > 100 THEN 100 ELSE IF score < 0 THEN 0 ELSE score
        IN  EqualsHundredths(result.pattern.confidence, clamp)

\* 6 cycles, everything consistent: 0.5 + 0.2 + 0.15 + 0.1 + 0.05
C2_Witness ==
    /\ Analyzed
    /\ Len(historicalCycles) >= 6
    /\ JudgedConsistentLength(result)
    /\ JudgedConsistentDay(result)
    /\ JudgedConsistentOffset(result)

\* C3: quality is 'high' iff confidence >= 0.8 and there are >= 6 cycles;
\* otherwise 'medium' iff confidence >= 0.6 and there are >= 3 cycles;
\* otherwise 'low'; no history of fewer than 6 cycles is 'high'.
C3_QualityClassification ==
    Analyzed =>
        LET n      == Len(historicalCycles)
            c      == result.pattern.confidence
            high   == DblGeq(c, DblLit(8, 10)) /\ n >= 6
            medium == ~high /\ DblGeq(c, DblLit(6, 10)) /\ n >= 3
        IN  /\ (result.quality = "high") <=> high
            /\ (result.quality = "medium") <=> medium
            /\ (result.quality = "low") <=> (~high /\ ~medium)
            /\ n < 6 => result.quality # "high"

C3_Witness == Analyzed /\ result.quality = "high"

\* C4: for 2 or more cycles typicalCycleLength is the mode of the
\* day-differences between consecutive statement dates, and their median
\* when no mode exists, i.e. when all the differences are distinct.
C4_ModeOrMedianWhenAllDistinct ==
    (Analyzed /\ Len(historicalCycles) >= 2) =>
        LET diffs == ConsecutiveDifferences(historicalCycles)
        IN  IF AllDistinct(diffs)
            THEN result.pattern.typicalCycleLength = TwiceMedian(diffs)
            ELSE \E v \in {diffs[i] : i \in 1..Len(diffs)} :
                    /\ IsMostFrequent(diffs, v)
                    /\ result.pattern.typicalCycleLength = 2 * v

\* the history 2024-01-31, 2024-02-29, 2024-03-31 (differences 29 and 31),
\* on which the code answers 29 and the median is 30
C4_FailingInput ==
    /\ Analyzed
    /\ ConsecutiveDifferences(historicalCycles) = <<29, 31>>
    /\ result.pattern.typicalCycleLength = 2 * 29

\* C5: the statement day is judged consistent exactly when all days of the
\* month are identical, or (max day - min day) <= 3 and max day >= 28;
\* statementDayOfMonth is the mode of the days when consistent, else null.
C5_StatementDayConsistency ==
    (Analyzed /\ Len(historicalCycles) >= 2) =>
        LET days       == DaysOfMonth(historicalCycles)
            consistent == \/ \A i, j \in 1..Len(days) : days[i] = days[j]
                          \/ /\ MaxOf(days) - MinOf(days) <= 3
                             /\ MaxOf(days) >= 28
        IN  /\ JudgedConsistentDay(result) <=> consistent
            /\ IF consistent
               THEN \E v \in 1..31 :
                       /\ IsMostFrequent(days, v)
                       /\ result.pattern.statementDayOfMonth = Some(v)
               ELSE result.pattern.statementDayOfMonth = Null

\* consistent by the month-end rule, the days not all identical
C5_Witness ==
    /\ Analyzed
    /\ Len(historicalCycles) >= 2
    /\ JudgedConsistentDay(result)
    /\ ~AllDistinct(DaysOfMonth(historicalCycles))
    /\ \E i, j \in 1..Len(historicalCycles) :
          getDate(historicalCycles[i].statementDate)
              # getDate(historicalCycles[j].statementDate)

\* C6: for 2 or more cycles dueDateOffset is the rounded median of the
\* per-cycle differences dueDate - statementDate; the offset is judged
\* consistent exactly when their population variance is < 4, and the cycle
\* length exactly when the population variance of the consecutive
\* statement-date differences is < 4.
C6_OffsetAndVarianceTests ==
    (Analyzed /\ Len(historicalCycles) >= 2) =>
        LET offsets == OffsetsOf(historicalCycles)
            lengths == ConsecutiveDifferences(historicalCycles)
        IN  /\ 2 * result.pattern.dueDateOffset
                   = TwiceMedian(offsets) + (TwiceMedian(offsets) % 2)
            /\ JudgedConsistentOffset(result) <=> PopulationVarianceBelow(offsets, 4)
            /\ JudgedConsistentLength(result) <=> PopulationVarianceBelow(lengths, 4)

\* offsets 21 and 25: the median 23, the variance exactly 4
C6_Witness ==
    /\ Analyzed
    /\ OffsetsOf(historicalCycles) = <<21, 25>>
    /\ result.pattern.dueDateOffset = 23
    /\ ~JudgedConsistentOffset(result)
    /\ JudgedConsistentLength(result)

\* the cycles of xs at the positions S, in their order
SubHistory(xs, S) ==
    LET at == AscendingSeq(S)
    IN  ArrayOf([k \in 1..Len(at) |-> xs[at[k]]])

SameVerdicts(r1, r2) ==
    /\ JudgedConsistentLength(r1) <=> JudgedConsistentLength(r2)
    /\ JudgedConsistentDay(r1) <=> JudgedConsistentDay(r2)
    /\ JudgedConsistentOffset(r1) <=> JudgedConsistentOffset(r2)

\* C7: confidence is monotone in the sample count: for histories A
\* contained in B (B the analysed history, of distinct cycles) on which
\* the three consistency tests come out alike, or with A of size 0 or 1,
\* the confidence of B is at least that of A.
C7_MonotoneInSampleCount ==
    (Analyzed /\ AllDistinct(historicalCycles)) =>
        \A S \in SUBSET (1..Len(historicalCycles)) :
            LET A  == SubHistory(historicalCycles, S)
                rA == analyzeBillingCyclePattern(A)
            IN  (Len(A) < 2 \/ SameVerdicts(rA, result)) =>
                    DblGeq(result.pattern.confidence, rA.pattern.confidence)

\* six distinct cycles, and a sub-history of 3 to 5 of them with the same
\* verdicts
C7_Witness ==
    /\ Analyzed
    /\ AllDistinct(historicalCycles)
    /\ Len(historicalCycles) >= 6
    /\ \E S \in SUBSET (1..Len(historicalCycles)) :
          /\ Cardinality(S) \in 3..5
          /\ SameVerdicts(analyzeBillingCyclePattern(SubHistory(historicalCycles, S)), result)

\* the orders of xs compared with the one analysed: every order of a short
\* array; the reversal and the exchanges of two neighbours of a long one
Reorderings(xs) ==
    LET n == Len(xs)
    IN  {Reversed(xs)}
        \cup {Permuted(xs, [k \in 1..n |-> IF k = i THEN i + 1 ELSE IF k = i + 1 THEN i ELSE k])
                : i \in 1..(n - 1)}
        \cup (IF n <= MaxShuffled THEN {Permuted(xs, p) : p \in Orderings(n)} ELSE {})

\* C8: the cycles are processed in ascending statementDate order whatever
\* the order given: pattern and quality are the same for the reorderings
\* of the input, and the call leaves the caller's array as it was.
C8_OrderInsensitiveAndInputKept ==
    [][ (analysis = Null /\ analysis' # Null) =>
            /\ historicalCycles' = historicalCycles
            /\ \A xs \in Reorderings(historicalCycles) :
                  LET r == analyzeBillingCyclePattern(xs)
                  IN  /\ r.pattern = analysis'[1].pattern
                      /\ r.quality = analysis'[1].quality ]_vars

\* an analysed array that was not in date order
C8_Witness ==
    /\ Analyzed
    /\ Len(historicalCycles) >= 3
    /\ ~IsChronological(historicalCycles)
    /\ ~IsChronological(Reversed(historicalCycles))

\* C10: the first projection starts exactly one day after
\* lastKnownCycle.statementDate, at the start of the day, and each later
\* projection starts exactly one day after the preceding cycleEndDate.
C10_CycleStartFollowsPreviousEnd ==
    projections # Null =>
        LET ps == projections[1]
        IN  /\ Len(ps) >= 1 =>
                 ps[1].cycleStartDate
                     = startOfDay(lastKnownCycle.statementDate) + TicksPerDay
            /\ \A i \in 2..Len(ps) :
                 ps[i].cycleStartDate = ps[i - 1].cycleEndDate + TicksPerDay

\* several projections from a statement closed during the day
C10_Witness ==
    /\ projections # Null
    /\ Len(projections[1]) >= 2
    /\ TimeOfDay(lastKnownCycle.statementDate) # 0

\* the projections of the last call (when projections # Null)
projected == projections[1]

\* the months since year 0 of the calendar month of a date
MonthIndex(date) == 12 * getFullYear(date) + getMonth(date)

\* C11: every projection made from a pattern returned by the analysis and
\* a lastKnownCycle of the analysed history has
\* cycleStartDate < cycleEndDate < paymentDueDate.
C11_ProjectionDatesOrdered ==
    projections # Null =>
        \A i \in 1..Len(projected) :
            /\ projected[i].cycleStartDate < projected[i].cycleEndDate
            /\ projected[i].cycleEndDate < projected[i].paymentDueDate

\* the history 2024-01-31 (three times), 2024-03-15: lengths 0, 0, 44, the
\* typical length 0 and no consistent day; the first projection starts
\* after it ends
C11_FailingInput ==
    /\ projections # Null
    /\ Len(projected) >= 1
    /\ result.pattern.typicalCycleLength = 0
    /\ result.pattern.statementDayOfMonth = Null
    /\ result.pattern.dueDateOffset > 0
    /\ projected[1].cycleStartDate > projected[1].cycleEndDate

\* C12: with a statementDayOfMonth the i-th projection (0-based) ends in
\* the (i+1)-th calendar month after that of lastKnownCycle.statementDate,
\* on day min(statementDayOfMonth, last day of that month); without one it
\* ends (i+1) * typicalCycleLength days after lastKnownCycle.statementDate
\* (as calendar days: the time of day is dropped, so to within half a day).
C12_NextStatementDate ==
    projections # Null =>
        LET pattern == result.pattern
            last    == lastKnownCycle.statementDate
        IN  \A k \in 1..Len(projected) :
              LET end == projected[k].cycleEndDate
              IN  IF pattern.statementDayOfMonth # Null
                  THEN /\ MonthIndex(end) = MonthIndex(last) + k
                       /\ getDate(end) =
                            IF pattern.statementDayOfMonth[1] < lastDayOfMonth(end)
                            THEN pattern.statementDayOfMonth[1]
                            ELSE lastDayOfMonth(end)
                  ELSE 2 * (DayOf(end) - DayOf(last)) - k * pattern.typicalCycleLength
                           \in -1..1

\* the history 2024-04-17 (twice), 2024-04-30: lengths 0 and 13, the
\* typical length their median 6.5; the second projection ends 12 days
\* after the last known statement, not 13
C12_FailingInput ==
    /\ projections # Null
    /\ Len(projected) >= 2
    /\ result.pattern.statementDayOfMonth = Null
    /\ result.pattern.typicalCycleLength = 13
    /\ DayOf(projected[2].cycleEndDate) - DayOf(lastKnownCycle.statementDate) = 12

\* C13: for monthsAhead >= 0 there are exactly monthsAhead projections,
\* each with isProjected = true and paymentDueDate = its cycleEndDate plus
\* pattern.dueDateOffset days, in the order generated (index i is the i-th
\* cycle after the last known one: cycle ends never go back).
C13_CountFlagAndDueDate ==
    (projections # Null /\ monthsAhead >= 0) =>
        /\ Len(projected) = monthsAhead
        /\ \A i \in 1..Len(projected) :
              /\ projected[i].isProjected = TRUE
              /\ projected[i].paymentDueDate
                    = projected[i].cycleEndDate
                        + result.pattern.dueDateOffset * TicksPerDay
        /\ \A i \in 2..Len(projected) :
              projected[i - 1].cycleEndDate <= projected[i].cycleEndDate

\* three projections from a statement closed during the day, and an
\* offset that the median rounded
C13_Witness ==
    /\ projections # Null
    /\ monthsAhead >= 3
    /\ Len(projected) = monthsAhead
    /\ TimeOfDay(lastKnownCycle.statementDate) # 0
    /\ result.pattern.dueDateOffset \notin {21, 25}

\* the hundredths k with pattern.confidence = k / 100 (as a double); the
\* scores are multiples of 0.05
HundredthsOf(x) == CHOOSE k \in {5 * n : n \in 1..20} : EqualsHundredths(x, k)

\* the double x >= 0 is n / d, up to the rounding of the operations (2^-50)
Near(x, n, d) ==
    IF n = 0 THEN x = DblZero
    ELSE LET tolerance == <<0, 0, 0, 0, 1024>>
         IN  /\ DblLess(LimbsSub(DblLit(n, d), tolerance), x)
             /\ DblLess(x, LimbsAdd(DblLit(n, d), tolerance))

\* C14: the confidence of the projection at 0-based index i is
\* pattern.confidence * (1 - i * 0.05), not clamped (negative from i = 21
\* on), and it is non-increasing in i.
C14_ProjectionConfidenceDecay ==
    projections # Null =>
        LET k == HundredthsOf(result.pattern.confidence)
        IN  \A j \in 1..Len(projected) :
              LET factor == 100 - 5 * (j - 1)
                  c      == projected[j].confidence
              IN  /\ c.neg <=> factor < 0
                  /\ Near(c.mag, k * (IF factor < 0 THEN -factor ELSE factor), 100 * 100)
                  /\ j > 1 => ~SignedLess(projected[j - 1].confidence, c)

\* pattern confidence 0.9: the projections have 0.9, 0.855, 0.81
C14_Witness ==
    /\ projections # Null
    /\ Len(projected) >= 3
    /\ HundredthsOf(result.pattern.confidence) = 90
    /\ Near(projected[2].confidence.mag, 855, 1000)
    /\ Near(projected[3].confidence.mag, 81, 100)

\* C15: every projection has a confidence within [0,1], for every
\* monthsAhead >= 0 and every pattern whose confidence is within [0,1].
C15_ProjectionConfidenceInUnitInterval ==
    projections # Null =>
        \A i \in 1..Len(projected) :
            /\ ~projected[i].confidence.neg
            /\ ~DblLess(DblInt(1), projected[i].confidence.mag)

\* monthsAhead = 22: the projection at index 21 has a negative confidence
C15_FailingInput ==
    /\ projections # Null
    /\ monthsAhead = LongHorizon
    /\ projected[LongHorizon].confidence.neg
    /\ ~DblLess(DblInt(1), result.pattern.confidence)

\* a helper call that has returned, and what it returned
Returned(op) ==
    /\ helperCall # Null
    /\ helperCall.op = op
    /\ helperCall.returned # Null

returned == helperCall.returned[1]

\* C16: adjustForMonthEnd(date, targetDay) returns a date in the month and
\* year of date whose day of the month is min(targetDay, last day of that
\* month), for every calendar month and every targetDay in 1..31.
C16_AdjustForMonthEnd ==
    Returned("adjustForMonthEnd") =>
        LET y    == getFullYear(helperCall.date)
            m    == getMonth(helperCall.date)
            last == CASE m \in {4, 6, 9, 11} -> 30
                      [] m = 2 -> (IF y = 2024 THEN 29 ELSE 28)
                      [] OTHER -> 31
        IN  /\ helperCall.targetDay \in 1..31
            /\ getFullYear(returned) = y
            /\ getMonth(returned) = m
            /\ getDate(returned)
                 = IF helperCall.targetDay < last THEN helperCall.targetDay ELSE last

\* target 31 in February of a common year: February 28
C16_Witness ==
    /\ Returned("adjustForMonthEnd")
    /\ helperCall.targetDay = 31
    /\ getFullYear(helperCall.date) = 2023
    /\ getMonth(helperCall.date) = 2
    /\ returned = DateAt(2023, 2, 28, TimeOfDay(helperCall.date))

\* C17: assignTransactionToCycle scans the cycles in the order given and
\* returns the first one with cycleStartDate <= transactionDate <=
\* cycleEndDate (both ends inclusive); it returns null when no cycle
\* contains the date, and never a cycle that does not contain it.
C17_FirstContainingCycle ==
    Returned("assignTransactionToCycle") =>
        LET t    == helperCall.transactionDate
            cs   == helperCall.cycles
            hits == {i \in 1..Len(cs) :
                        cs[i].cycleStartDate <= t /\ t <= cs[i].cycleEndDate}
        IN  /\ hits = {} <=> returned = Null
            /\ hits # {} =>
                 \E i \in hits :
                    /\ \A j \in hits : i <= j
                    /\ returned = Some(cs[i])
            /\ returned # Null =>
                 returned[1].cycleStartDate <= t /\ t <= returned[1].cycleEndDate

\* a date on the last instant of the second cycle given, which a later
\* cycle contains too; the second is returned
C17_Witness ==
    /\ Returned("assignTransactionToCycle")
    /\ Len(helperCall.cycles) = 3
    /\ returned = Some(helperCall.cycles[2])
    /\ helperCall.cycles[2] # helperCall.cycles[1]
    /\ helperCall.transactionDate = helperCall.cycles[2].cycleEndDate
    /\ helperCall.cycles[3].cycleStartDate <= helperCall.transactionDate
    /\ helperCall.transactionDate <= helperCall.cycles[3].cycleEndDate
    /\ helperCall.cycles[3] # helperCall.cycles[2]

\* the limbs x times a small integer c, exactly
LimbsScale(x, c) ==
    LET s5 == x[5] * c
        s4 == x[4] * c + (s5 \div LimbBase)
        s3 == x[3] * c + (s4 \div LimbBase)
        s2 == x[2] * c + (s3 \div LimbBase)
        s1 == x[1] * c + (s2 \div LimbBase)
    IN  <<s1, s2 % LimbBase, s3 % LimbBase, s4 % LimbBase, s5 % LimbBase>>

\* the double x >= 0 is n / (100 * 100 * 720), up to the rounding of the
\* operations (about 2^-50)
NearOf7200000(x, n) ==
    LET y       == LimbsScale(LimbsScale(LimbsScale(x, 100), 100), 720)
        epsilon == <<0, 0, 8, 0, 0>>
    IN  IF n = 0 THEN x = DblZero
        ELSE /\ LimbsLess(LimbsSub(<<n, 0, 0, 0, 0>>, epsilon), y, 1)
             /\ LimbsLess(y, LimbsAdd(<<n, 0, 0, 0, 0>>, epsilon), 1)

\* the pattern confidence of the call in hundredths, with its sign
SignedHundredths(c) ==
    LET k == CHOOSE h \in 0..150 : EqualsHundredths(c.mag, h) \/ (h = 0 /\ c.mag = DblZero)
    IN  IF c.neg THEN -k ELSE k

\* C18: calculateCycleConfidence returns patternConfidence times the
\* provenance factor (plaid 1.0, inferred 0.85, manual 0.7), times
\* max(0.5, 1 - (dataAgeHours - 48) / 720) only when dataAgeHours > 48,
\* clamped to [0,1] for every input.
C18_CycleConfidence ==
    Returned("calculateCycleConfidence") =>
        LET k         == SignedHundredths(helperCall.patternConfidence)
            age       == helperCall.dataAgeHours
            factor    == CASE helperCall.dataSource = "plaid" -> 100
                           [] helperCall.dataSource = "inferred" -> 85
                           [] helperCall.dataSource = "manual" -> 70
            staleness == IF age > 48
                         THEN (IF 768 - age > 360 THEN 768 - age ELSE 360)
                         ELSE 720
            product   == k * factor * staleness
            clamped   == IF product < 0 THEN 0
                         ELSE IF product > 100 * 100 * 720 THEN 100 * 100 * 720
                         ELSE product
        IN  /\ NearOf7200000(returned, clamped)
            /\ ~DblLess(DblInt(1), returned)

\* ('plaid', 72, 0.9) gives about 0.87
C18_Witness ==
    /\ Returned("calculateCycleConfidence")
    /\ helperCall.dataSource = "plaid"
    /\ helperCall.dataAgeHours = 72
    /\ SignedHundredths(helperCall.patternConfidence) = 90
    /\ Near(returned, 87, 100)

\* the staleness multiplier of a call: what calculateCycleConfidence
\* returns for ('plaid', dataAgeHours, 1.0)
ShowsStaleness ==
    /\ Returned("calculateCycleConfidence")
    /\ helperCall.dataSource = "plaid"
    /\ helperCall.patternConfidence = Signed(FALSE, DblInt(1))

\* C19: the staleness multiplier decays linearly with the data age and
\* reaches its floor of 0.5 at 30 days stale (above 0.5 for data less than
\* 30 days old, 0.5 from 48 hours + 30 days on); it is never below 0.5 and
\* is 1 for data no older than 48 hours.
C19_StalenessFloorAtThirtyDays ==
    ShowsStaleness =>
        LET age == helperCall.dataAgeHours
        IN  /\ age <= 48 => returned = DblInt(1)
            /\ ~DblLess(returned, DblLit(5, 10))
            /\ (48 < age /\ age < 30 * 24) => DblLess(DblLit(5, 10), returned)
            /\ age >= 48 + 30 * 24 => returned = DblLit(5, 10)

\* data 17 days old (408 hours): the multiplier is already 0.5
C19_FailingInput ==
    /\ ShowsStaleness
    /\ helperCall.dataAgeHours = 408
    /\ returned = DblLit(5, 10)

\* the four messages, labels and colours, best tier first
Messages ==
    << "Updated today from your bank",
       "Estimated based on your typical cycle pattern",
       "Projection based on limited data",
       "Unable to sync. Please verify manually" >>

Labels == <<"High", "Medium", "Low", "Very Low">>

Colors ==
    << "text-green-600 bg-green-50", "text-blue-600 bg-blue-50",
       "text-yellow-600 bg-yellow-50", "text-red-600 bg-red-50" >>

\* the position of a string in one of these lists
TierIn(list, string) == CHOOSE i \in 1..Len(list) : list[i] = string

ShowsTier == helperCall # Null /\ helperCall.op = "confidenceTier"

\* C20: getConfidenceMessage maps every confidence to exactly one of the
\* four strings by the thresholds 0.85, 0.65, 0.45 (>= 0.85; >= 0.65 and
\* < 0.85; >= 0.45 and < 0.65; < 0.45), and the label and colour of
\* getConfidenceLabel and getConfidenceColor are of the same tier.
C20_MessageAndLabelTiers ==
    ShowsTier =>
        LET c    == helperCall.confidence
            tier == IF ~SignedLess(c, Signed(FALSE, DblLit(85, 100))) THEN 1
                    ELSE IF ~SignedLess(c, Signed(FALSE, DblLit(65, 100))) THEN 2
                    ELSE IF ~SignedLess(c, Signed(FALSE, DblLit(45, 100))) THEN 3
                    ELSE 4
        IN  /\ helperCall.message # Null => helperCall.message[1] = Messages[tier]
            /\ (helperCall.message # Null /\ helperCall.label # Null) =>
                  /\ helperCall.label[1] \in {Labels[i] : i \in 1..4}
                  /\ TierIn(Labels, helperCall.label[1]) = TierIn(Messages, helperCall.message[1])
            /\ (helperCall.message # Null /\ helperCall.color # Null) =>
                  /\ helperCall.color[1] \in {Colors[i] : i \in 1..4}
                  /\ TierIn(Colors, helperCall.color[1]) = TierIn(Messages, helperCall.message[1])

\* a confidence of exactly 0.85, shown with its message, label and colour
C20_Witness ==
    /\ ShowsTier
    /\ helperCall.confidence = Signed(FALSE, DblLit(85, 100))
    /\ helperCall.message = Some("Updated today from your bank")
    /\ helperCall.label = Some("High")
    /\ helperCall.color # Null


\* ------------------------------------------------------------------------
\* Caller contract and edge cases
\* ------------------------------------------------------------------------

\* C21: projectFutureCycles called with a negative monthsAhead reports an
\* error to the caller instead of returning a result: no call with a
\* negative monthsAhead has returned an array.
C21_NegativeMonthsAheadReported ==
    ~(monthsAhead < 0 /\ projections # Null)

\* the call with monthsAhead = -1 returned the empty array
C21_FailingInput ==
    /\ monthsAhead = -1
    /\ projections = Some(<<>>)


\* C22: analyzeBillingCyclePattern raises no error for a data-quality edge
\* case: for every history (empty, single, identical statement dates, ties
\* in the mode, due date before statement date) it returns a complete
\* result: a pattern with its four fields, a quality and at least one
\* insight.
C22_CompleteResultForEveryHistory ==
    Analyzed =>
        /\ DOMAIN result = {"pattern", "quality", "insights"}
        /\ DOMAIN result.pattern
              = {"typicalCycleLength", "statementDayOfMonth", "dueDateOffset", "confidence"}
        /\ result.pattern.typicalCycleLength \in Int
        /\ result.pattern.dueDateOffset \in Int
        /\ \/ result.pattern.statementDayOfMonth = Null
           \/ /\ Len(result.pattern.statementDayOfMonth) = 1
              /\ result.pattern.statementDayOfMonth[1] \in Int
        /\ DblGeq(result.pattern.confidence, DblZero)
        /\ result.quality \in {"low", "medium", "high"}
        /\ Len(result.insights) >= 1
        /\ \A k \in 1..Len(result.insights) : Len(result.insights[k]) = 2

\* an analysed history of three statements of the same date, each due
\* before it was issued
C22_Witness ==
    /\ Analyzed
    /\ Len(historicalCycles) = 3
    /\ \A k \in 1..3 :
          /\ historicalCycles[k].statementDate = historicalCycles[1].statementDate
          /\ historicalCycles[k].dueDate < historicalCycles[k].statementDate


\* ------------------------------------------------------------------------
\* The statistical helpers
\* ------------------------------------------------------------------------

\* the values of xs that occur most often
MostFrequent(xs) == {xs[i] : i \in {j \in 1..Len(xs) : IsMostFrequent(xs, xs[j])}}

\* the least element of a non-empty set of integers
Least(S) == CHOOSE x \in S : \A y \in S : x <= y

\* the element of S that occurs first in xs
FirstOf(xs, S) == xs[Least({i \in 1..Len(xs) : xs[i] \in S})]

ModeInKeyOrder ==
    Returned("calculateMode") =>
        IF helperCall.given = <<>> THEN returned = Null
        ELSE LET tied        == MostFrequent(helperCall.given)
                 nonNegative == {v \in tied : v >= 0}
             IN  /\ returned # Null
                 /\ returned[1] \in tied
                 /\ returned = IF nonNegative # {} THEN Some(Least(nonNegative))
                               ELSE Some(FirstOf(helperCall.given, tied))

\* a tie between a negative and a greater non-negative value, and a tie
\* between two negative values of which the greater comes first
C23_FailingInput ==
    /\ Returned("calculateMode")
    /\ helperCall.given \in {<<3, -2>>, <<-1, -2>>}
    /\ returned = Some(helperCall.given[1])


\* the sum of the squared deviations of xs from its mean S / n, times n^2
SquaredDeviationsByCount(xs) ==
    LET n   == Len(xs)
        sum == SumSeq(xs, n)
    IN  SumSeq(ArrayOf([i \in 1..n |-> (n * xs[i] - sum) * (n * xs[i] - sum)]), n)

\* C24: calculateMedian returns the standard median (the middle element of
\* the sorted values, the average of the two middle elements for an even
\* length), calculateVariance returns the population variance (the sum of
\* the squared deviations from the mean divided by N); both return 0 for
\* an empty sequence, and neither modifies its input.
C24_MedianAndPopulationVariance ==
    /\ Returned("calculateMedian") =>
          /\ helperCall.numbers = helperCall.given
          /\ returned = IF helperCall.given = <<>> THEN 0
                        ELSE TwiceMedian(helperCall.given)
    /\ Returned("calculateVariance") =>
          /\ helperCall.numbers = helperCall.given
          /\ IF helperCall.given = <<>> THEN returned.num = 0
             ELSE LET n == Len(helperCall.given)
                  IN  returned.num * n * n * n
                        = SquaredDeviationsByCount(helperCall.given) * returned.den

\* the median of four numbers given out of order, which falls between
\* the two middle ones
C24_Witness ==
    /\ Returned("calculateMedian")
    /\ Len(helperCall.given) = 4
    /\ helperCall.given[1] > helperCall.given[2]
    /\ returned % 2 = 1


\* ------------------------------------------------------------------------
\* The pattern's fields and the quality
\* ------------------------------------------------------------------------

\* C25: for every history the typicalCycleLength and the dueDateOffset of
\* the pattern are whole numbers of days, and statementDayOfMonth is null
\* or an integer in 1..31.
C25_WholeDays ==
    Analyzed =>
        /\ result.pattern.typicalCycleLength % 2 = 0
        /\ result.pattern.dueDateOffset \in Int
        /\ \/ result.pattern.statementDayOfMonth = Null
           \/ result.pattern.statementDayOfMonth[1] \in 1..31

\* two statements of the same date and a third 13 days later: the
\* lengths are 0 and 13, the mode 0 is falsy and the median is 6.5
C25_FailingInput ==
    /\ Analyzed
    /\ Len(historicalCycles) = 3
    /\ cycleLengthsOf(sortedCyclesOf(historicalCycles)) = <<0, 13>>
    /\ result.pattern.typicalCycleLength = 13


\* C26: the quality is determined by the number of cycles and the
\* consistency verdicts: 'low' for exactly 2 cycles; 'medium' for 3 to 5
\* cycles; for 6 or more cycles 'high' exactly when the cycle length or
\* the statement day is consistent (also when only the statement day is:
\* 0.5 + 0.2 + 0.1 = 0.8), and 'medium' otherwise.
C26_QualityFromCountAndFlags ==
    (Analyzed /\ Len(historicalCycles) >= 2) =>
        LET n == Len(historicalCycles)
        IN  result.quality =
              IF n = 2 THEN "low"
              ELSE IF n <= 5 THEN "medium"
              ELSE IF JudgedConsistentLength(result) \/ JudgedConsistentDay(result)
                   THEN "high"
              ELSE "medium"

\* six cycles of which only the statement day is consistent: the score is
\* the double 0.5 + 0.2 + 0.1, which is below 0.8
C26_FailingInput ==
    /\ Analyzed
    /\ Len(historicalCycles) = 6
    /\ ~JudgedConsistentLength(result)
    /\ JudgedConsistentDay(result)
    /\ ~JudgedConsistentOffset(result)
    /\ DblLess(result.pattern.confidence, DblLit(8, 10))
    /\ result.quality = "medium"


\* ------------------------------------------------------------------------
\* Transactions assigned to the projected cycles
\* ------------------------------------------------------------------------

\* the indices of the cycles whose closed interval contains the instant t
Containing(t, cycles) ==
    {i \in 1..Len(cycles) :
        cycles[i].cycleStartDate <= t /\ t <= cycles[i].cycleEndDate}

\* an instant t assigned among the projected cycles: inside their span
\* exactly one cycle contains t and it is returned, outside it null is
\* returned
AssignedWithinSpan(t, cycles) ==
    IF cycles[1].cycleStartDate <= t /\ t <= cycles[Len(cycles)].cycleEndDate
    THEN /\ Cardinality(Containing(t, cycles)) = 1
         /\ \A i \in Containing(t, cycles) : returned = Some(cycles[i])
    ELSE returned = Null

\* C27: the projected cycles tile their span: the closed intervals
\* [cycleStartDate, cycleEndDate] of consecutive projections neither
\* overlap nor leave a gap, so for every date from the first
\* cycleStartDate to the last cycleEndDate assignTransactionToCycle returns
\* the one projection containing it, and null for a date outside the span.
C27_ProjectionsTileTheSpan ==
    (projections # Null /\ Returned("assignTransactionToCycle")) =>
        AssignedWithinSpan(helperCall.transactionDate, helperCall.cycles)

\* a transaction during the day on which the first of several projected
\* cycles ends: no cycle is returned
C27_FailingInput ==
    /\ projections # Null
    /\ Returned("assignTransactionToCycle")
    /\ Len(helperCall.cycles) >= 2
    /\ helperCall.transactionDate = helperCall.cycles[1].cycleEndDate + 1
    /\ helperCall.transactionDate < helperCall.cycles[2].cycleStartDate
    /\ returned = Null

\* at the resolution of whole days the tiling holds: a transaction at the
\* start of a day is assigned as C27 says
TilesWholeDays ==
    (projections # Null /\ Returned("assignTransactionToCycle")
        /\ TimeOfDay(helperCall.transactionDate) = 0) =>
            AssignedWithinSpan(helperCall.transactionDate, helperCall.cycles)


\* ------------------------------------------------------------------------
\* The billing cycles stored by the liabilities sync
\* ------------------------------------------------------------------------

\* the cycleEndDates of the observed rows, and of the projected rows
ObservedEndDates ==
    {billingCycles[k].cycleEndDate : k \in {j \in 1..Len(billingCycles) : ~billingCycles[j].isProjected}}

ProjectedEndDates ==
    {billingCycles[k].cycleEndDate : k \in {j \in 1..Len(billingCycles) : billingCycles[j].isProjected}}

\* the projected cycles that follow the latest observed statement
ProjectedAfterLatestObserved ==
    {d \in ProjectedEndDates : \A o \in ObservedEndDates : o < d}

\* the analysis of a request read observed cycles only
AnalysedObservedCycles(r) ==
    \A k \in 1..Len(sync[r].creditCard) : ~sync[r].creditCard[k].isProjected

\* C28: after any sequence of syncs the pattern analysis was computed
\* from observed cycles only, the projected cycles stored do not extend
\* beyond the 6 cycles that follow the latest observed statement, and a
\* sync repeated with unchanged Plaid data has stored no cycle.
C28_ProjectionsFromObservedCycles ==
    /\ \A r \in Requests : sync[r].analysis # Null => AnalysedObservedCycles(r)
    /\ (NoneHandled /\ ObservedEndDates # {}) =>
          Cardinality(ProjectedAfterLatestObserved) <= ProjectedMonths
    /\ \A r \in Requests : (sync[r].pc = "done" /\ sync[r].repeat) => sync[r].created = 0

\* no request is handled, the latest observed statement is that of
\* 2024-02-15, and projected cycles are stored for more than the 6 months
\* that follow it
C28_FailingInput ==
    /\ NoneHandled
    /\ overlaps = 0
    /\ \A o \in ObservedEndDates : o <= DateAt(2024, 2, 15, 0)
    /\ DateAt(2024, 2, 15, 0) \in ObservedEndDates
    /\ Cardinality(ProjectedAfterLatestObserved) = 2 * ProjectedMonths

\* C29: at most one billing cycle is stored per cycleEndDate of the card,
\* whatever the interleaving of the syncs.
C29_OneCyclePerEndDate ==
    \A i, j \in 1..Len(billingCycles) :
        billingCycles[i].cycleEndDate = billingCycles[j].cycleEndDate => i = j

\* two requests found no cycle for the statement of 2024-01-15 and each
\* created one
C29_FailingInput ==
    /\ Len(billingCycles) = 2
    /\ billingCycles[1] = billingCycles[2]
    /\ ~billingCycles[1].isProjected

\* without a request received while another one is handled, no
\* cycleEndDate is stored twice
OneCyclePerEndDateInSequence ==
    overlaps = 0 => C29_OneCyclePerEndDate

\* a sync that has received both dates from Plaid and is done with the
\* card
ReceivedBothDates(r) ==
    /\ sync[r].pc = "done"
    /\ sync[r].liability[1].lastStatementDate # Null
    /\ sync[r].liability[1].nextDueDate # Null

\* C30: when a sync has received a last statement date and a next due
\* date from Plaid, then after it an observed cycle (isProjected false,
\* dataSource 'plaid') with that cycleEndDate is stored, also when a
\* projected cycle of that cycleEndDate was stored before.
C30_ObservedCycleStored ==
    \A r \in Requests :
        ReceivedBothDates(r) =>
            \E k \in 1..Len(billingCycles) :
                /\ billingCycles[k].cycleEndDate = sync[r].liability[1].lastStatementDate[1]
                /\ ~billingCycles[k].isProjected
                /\ billingCycles[k].dataSource = "plaid"

\* the sync of the statement of 2024-03-15 is done and the only cycle
\* stored with that cycleEndDate is the projected one
C30_FailingInput ==
    /\ overlaps = 0
    /\ \E r \in Requests :
          /\ ReceivedBothDates(r)
          /\ sync[r].liability[1].lastStatementDate = Some(DateAt(2024, 3, 15, 0))
    /\ DateAt(2024, 3, 15, 0) \in ProjectedEndDates
    /\ DateAt(2024, 3, 15, 0) \notin ObservedEndDates

\* after such a sync some cycle, observed or projected, is stored with
\* that cycleEndDate
SomeCycleStored ==
    \A r \in Requests :
        ReceivedBothDates(r) => FindFirst(sync[r].liability[1].lastStatementDate[1])

\* ... and the observed one is missing only where a projected one is
\* stored
ObservedCycleStoredUnlessProjected ==
    \A r \in Requests :
        ReceivedBothDates(r) =>
            \/ sync[r].liability[1].lastStatementDate[1] \in ObservedEndDates
            \/ sync[r].liability[1].lastStatementDate[1] \in ProjectedEndDates

====
